---------------------------- MODULE Spec2Model ----------------------------
(***************************************************************************)
(* A model of obsidian-wizard.py: the raw key decoder (get_key), the menu  *)
(* widgets (selection_menu, confirm, show_status_screen), the settings     *)
(* editor, the WiFi sub-wizard, image selection, the Install and           *)
(* Update/Repair flows with their command assembly, and the main loop.     *)
(*                                                                         *)
(* Strings are sequences of chunks: a chunk is a run of characters the     *)
(* program never looks inside (a word, a size, a file name) and a blank is *)
(* the chunk " ".  startswith, split and strip then work on chunks the way *)
(* the Python methods work on characters.  A key is the sequence of bytes  *)
(* get_key returns.                                                        *)
(***************************************************************************)
EXTENDS Integers, Sequences, FiniteSets, TLC

VARIABLES
    pc,              \* the call site the program is at
    ui,              \* the widget waiting there: "menu", "confirm", "status", "anykey"; "ret" once it returned; "call" when a function was just entered; "done" after exit
    selected_index,  \* the cursor of the open widget
    choice,          \* the value the last selection_menu returned (None: cancelled)
    answer,          \* the value the last confirm / show_status_screen returned
    gk,              \* position inside get_key: "out", "saved", "raw", "esc", "fin"
    ch,              \* get_key's ch: the bytes read so far
    exc,             \* the exception in flight inside get_key
    term,            \* the terminal mode
    old_settings,    \* get_key's saved terminal attributes
    flow,            \* the locals of the running flow
    wifi,            \* the locals of the WiFi sub-wizard
    img,             \* the locals of select_system_image
    executed,        \* the commands run_command executed in this iteration of the main loop
    shown,           \* the banner printed last in this iteration of the main loop
    exit_status,     \* the exit status of the process once it ended
    IS_ARCHISO_REAL  \* whether /etc/system.sfs was a file when the module was loaded

vars == <<pc, ui, selected_index, choice, answer, gk, ch, exc, term, old_settings,
          flow, wifi, img, executed, shown, exit_status, IS_ARCHISO_REAL>>

---------------------------------------------------------------------------
(* Bytes and keys *)

ESC == 27
LBRACKET == 91
BYTE_A == 65
BYTE_B == 66
CR == 13
ETX == 3
BYTE_q == 113
BYTE_Q == 81

KEY_UP == <<ESC, LBRACKET, BYTE_A>>
KEY_DOWN == <<ESC, LBRACKET, BYTE_B>>
KEY_ENTER == <<CR>>
KEY_INTERRUPT == <<ETX>>

\* The first bytes a read(1) is given in the model: the bytes the widgets test for, 'x'
\* (120) for every other byte, and <<>> for the empty read at end of input.
FirstReads == {<<ESC>>, <<CR>>, <<ETX>>, <<BYTE_q>>, <<BYTE_Q>>, <<120>>, <<>>}

\* What read(2) is given after an escape byte: two bytes ("[C", 91 67, is the suffix of
\* the Right arrow), or fewer at end of input.
EscReads == {<<LBRACKET, BYTE_A>>, <<LBRACKET, BYTE_B>>, <<LBRACKET, 67>>,
             <<BYTE_q, BYTE_q>>, <<LBRACKET>>, <<>>}

\* str.lower() on a key
Lower(key) ==
    [i \in DOMAIN key |->
        IF key[i] >= BYTE_A /\ key[i] < BYTE_A + 26 THEN key[i] + 32 ELSE key[i]]


\* a faulty IsQuitKey: the comparison without lower(), so that 'Q' does not quit
IsQuitKeyCaseSensitive(key) == key = KEY_INTERRUPT \/ key = <<BYTE_q>>

IsQuitKey(key) == key = KEY_INTERRUPT \/ Lower(key) = <<BYTE_q>>

---------------------------------------------------------------------------
(* Strings as sequences of chunks *)

SP == " "
None == <<>>

StartsWith(s, p) == Len(p) <= Len(s) /\ SubSeq(s, 1, Len(p)) = p

RECURSIVE LStrip(_)
LStrip(s) == IF s # <<>> /\ Head(s) = SP THEN LStrip(Tail(s)) ELSE s

RECURSIVE RStrip(_)
RStrip(s) == IF s # <<>> /\ s[Len(s)] = SP THEN RStrip(SubSeq(s, 1, Len(s) - 1)) ELSE s

\* str.strip()
Strip(s) == RStrip(LStrip(s))

\* s.split(' ')[0]
RECURSIVE FirstField(_)
FirstField(s) ==
    IF s = <<>> \/ Head(s) = SP THEN <<>> ELSE <<Head(s)>> \o FirstField(Tail(s))

\* the text after the first blank: what follows s.split(' ')[0]
RECURSIVE AfterFirstBlank(_)
AfterFirstBlank(s) ==
    IF s = <<>> THEN <<>> ELSE IF Head(s) = SP THEN Tail(s) ELSE AfterFirstBlank(Tail(s))

Upper(s) ==
    [i \in DOMAIN s |->
        CASE s[i] = "ext4" -> "EXT4" [] s[i] = "f2fs" -> "F2FS"
          [] s[i] = "a" -> "A" [] s[i] = "b" -> "B" [] OTHER -> s[i]]

LowerStr(s) ==
    [i \in DOMAIN s |->
        CASE s[i] = "Install" -> "install" [] s[i] = "Repair" -> "repair"
          [] s[i] = "Update" -> "update"
          [] s[i] = "A" -> "a" [] s[i] = "B" -> "b" [] OTHER -> s[i]]

\* s.split(' '): the fields between blanks
RECURSIVE Split(_)
Split(s) ==
    IF s = <<>> THEN <<<<>>>>
    ELSE LET rest == Split(Tail(s)) IN
         IF Head(s) = SP THEN <<<<>>>> \o rest
         ELSE <<<<Head(s)>> \o Head(rest)>> \o Tail(rest)

---------------------------------------------------------------------------
(* Module-level data *)

DEFAULT_PARTITION_SIZES ==
    [esp_size |-> <<"512M">>, rootfs_size |-> <<"10G">>,
     etc_size |-> <<"1G">>, var_size |-> <<"5G">>]

IS_ARCHISO == TRUE

OBSIDIANCTL_PATH == <<"obsidianctl">>

DEFAULT_IMAGE == <<"/etc/system.sfs">>

CONFIG_FILE_PATH == <<"~/config.mkobsfs">>

\* the editor select_system_image starts with os.system on the new configuration
EDITOR_COMMAND == <<"nano", SP>> \o CONFIG_FILE_PATH

PRECONF_PATH == <<"/usr/preconf">>

\* get_next_slot() over the slots get_current_slots() returned
get_next_slot(current_slots) ==
    IF current_slots = <<>> THEN <<"a">>
    ELSE IF current_slots[1] = <<"a">> THEN <<"b">> ELSE <<"a">>

---------------------------------------------------------------------------
(* The locals of the flows *)

NoFlow ==
    [action |-> None, dual_boot |-> FALSE,
     partition_sizes |-> DEFAULT_PARTITION_SIZES, file_system_type |-> <<"ext4">>,
     disks |-> <<>>, disk |-> None, selected_disk |-> None,
     slots |-> <<>>, slot |-> None, image_path |-> None,
     editor_command |-> None, result |-> -1, lsblk |-> <<>>]

\* laptop and wired are what is_laptop() and has_wired_connection() answered; ssid,
\* probes is what the machine answers to the probes of is_laptop and has_wired_connection
\* while wifi_connection_menu classifies it, probed the probes that were made, in order;
\* config_file tells what became of the file connect_wifi_wpa wrote in that call;
\* password, tried and results describe the last call of attempt_wifi_connection: the
\* backends it called, in the order of the calls, and what each of them did
NoWifi ==
    [laptop |-> FALSE, wired |-> FALSE,
     wifi_tools |-> <<>>, interface |-> None, networks |-> <<>>,
     ssid |-> None, password |-> None, tried |-> <<>>, results |-> <<>>,
     probes |-> [battery |-> FALSE, dmi |-> "none", lid |-> FALSE,
                 route |-> "none", ping |-> "none", get |-> "none"],
     probed |-> <<>>, config_file |-> "none"]

NoImg ==
    [options |-> <<>>, filepath |-> None,
     preconf |-> [exists |-> FALSE, files |-> <<>>],
     current_dir |-> [exists |-> FALSE, files |-> <<>>]]

---------------------------------------------------------------------------
(* The option lists of the menus *)

main_options ==
    << <<"Install", SP, "ObsidianOS">>, <<"Repair", SP, "ObsidianOS">>,
       <<"Drop", SP, "to", SP, "Terminal">>, <<"Reboot", SP, "System">> >>
    \o (IF ~IS_ARCHISO
        THEN << <<"Update", SP, "System">>,
                <<"Switch", SP, "Slot", SP, "and", SP, "Reboot", SP, "(temporary)">>,
                <<"Switch", SP, "Slot", SP, "and", SP, "Reboot", SP, "(permanent)">>,
                <<"Sync", SP, "slots">> >>
        ELSE <<>>)

dual_boot_options ==
    << <<"Enable", SP, "Dual", SP, "Boot">>, <<"Single", SP, "Boot", SP, "Only">> >>

wifi_menu_options ==
    << <<"Scan", SP, "for", SP, "Networks">>, <<"Manual", SP, "Connection">> >>

BACK_TO_WIFI == <<"Back", SP, "to", SP, "WiFi", SP, "Menu">>

fs_options == << <<"ext4">>, <<"f2fs">> >>

RESET_TO_DEFAULTS == <<"Reset", SP, "to", SP, "Defaults">>

SAVE_AND_CONTINUE == <<"Save", SP, "and", SP, "Continue">>

size_options(partition_sizes, file_system_type) ==
    << <<"ESP", SP, "Size:", SP>> \o partition_sizes.esp_size,
       <<"Root", SP, "FS", SP, "Size:", SP>> \o partition_sizes.rootfs_size,
       <<"ETC", SP, "Size:", SP>> \o partition_sizes.etc_size,
       <<"VAR", SP, "Size:", SP>> \o partition_sizes.var_size,
       <<"File", SP, "System", SP, "Type:", SP>> \o Upper(file_system_type),
       RESET_TO_DEFAULTS,
       SAVE_AND_CONTINUE >>

disk_selection_options ==
    << <<"Current", SP, "Disk">>, <<"Select", SP, "a", SP, "Disk">> >>

slot_options(slots) == [i \in DOMAIN slots |-> <<"Slot", SP>> \o Upper(slots[i])]

confirm_options == << <<"Yes", ",", SP, "Continue">>, <<"No", ",", SP, "Go", SP, "Back">> >>

YES_EXECUTE_NOW == <<"Yes", ",", SP, "Execute", SP, "Now">>

status_options == << YES_EXECUTE_NOW, <<"No", ",", SP, "Cancel">> >>

\* networks[:10]: the most networks the list shows
MaxShown == 10

\* network_options of scan_and_connect_wifi
network_options(networks) ==
    [i \in 1..(IF Len(networks) < MaxShown THEN Len(networks) ELSE MaxShown) |->
        <<(IF networks[i].encrypted THEN "LOCK" ELSE "OPEN"), SP>> \o networks[i].essid
        \o <<SP, "(Quality:", SP>>
        \o (IF networks[i].quality = None THEN <<"Unknown">> ELSE networks[i].quality)
        \o <<")">>]
    \o <<BACK_TO_WIFI>>

\* The options of the widget open at the current call site
Options ==
    CASE pc = "main" -> main_options
      [] pc = "dual_boot" -> dual_boot_options
      [] pc = "wifi_setup" -> wifi_menu_options
      [] pc = "wifi_networks" -> network_options(wifi.networks)
      [] pc = "adv" -> size_options(flow.partition_sizes, flow.file_system_type)
      [] pc = "adv_fs" -> fs_options
      [] pc \in {"disk", "upd_disk"} -> flow.disks
      [] pc = "disk_selection" -> disk_selection_options
      [] pc = "slot" -> slot_options(flow.slots)
      [] pc = "image" -> img.options
      [] pc \in {"adv_confirm", "image_confirm", "reboot_confirm"} -> confirm_options
      [] pc = "status" -> status_options
      [] OTHER -> <<>>

---------------------------------------------------------------------------
(* get_key *)

\* get_key is entered by the widget that waits for a key: termios.tcgetattr
GetKeySave ==
    /\ ui \in {"menu", "confirm", "status", "anykey"}
    /\ gk = "out"
    /\ old_settings' = term
    /\ gk' = "saved"
    /\ UNCHANGED <<pc, ui, selected_index, choice, answer, ch, exc, term,
                   flow, wifi, img, executed, shown, exit_status, IS_ARCHISO_REAL>>

\* tty.setraw: the terminal goes raw, or the call raises
GetKeySetRaw ==
    /\ gk = "saved"
    /\ \/ term' = "raw" /\ gk' = "raw" /\ exc' = exc
       \/ term' = term /\ gk' = "fin" /\ exc' = "error"
    /\ UNCHANGED <<pc, ui, selected_index, choice, answer, ch, old_settings,
                   flow, wifi, img, executed, shown, exit_status, IS_ARCHISO_REAL>>

\* sys.stdin.read(1): a byte (or nothing at end of input), an error or an interrupt
GetKeyRead ==
    /\ gk = "raw"
    /\ \/ \E r \in FirstReads :
            /\ ch' = r
            /\ gk' = IF r = <<ESC>> THEN "esc" ELSE "fin"
            /\ exc' = exc
       \/ \E e \in {"error", "interrupt"} : ch' = ch /\ gk' = "fin" /\ exc' = e
    /\ UNCHANGED <<pc, ui, selected_index, choice, answer, term, old_settings,
                   flow, wifi, img, executed, shown, exit_status, IS_ARCHISO_REAL>>

\* sys.stdin.read(2) after an escape byte; it blocks until the bytes are there
GetKeyReadEsc ==
    /\ gk = "esc"
    /\ \/ \E r \in EscReads : ch' = ch \o r /\ gk' = "fin" /\ exc' = exc
       \/ \E e \in {"error", "interrupt"} : ch' = ch /\ gk' = "fin" /\ exc' = e
    /\ UNCHANGED <<pc, ui, selected_index, choice, answer, term, old_settings,
                   flow, wifi, img, executed, shown, exit_status, IS_ARCHISO_REAL>>

\* the finally clause: termios.tcsetattr(fd, TCSADRAIN, old_settings)
Restore == term' = old_settings

\* get_key returns ch to the widget that called it
GetKeyReturns ==
    /\ gk = "fin"
    /\ exc = "none"
    /\ Restore
    /\ gk' = "out"
    /\ ch' = <<>>
    /\ UNCHANGED <<exc, old_settings>>


---------------------------------------------------------------------------
(* The widgets *)


\* a faulty MoveUp: the decrement without the wraparound
MoveUpNoWrap(index, n) == index - 1

MoveUp(index, n) == (index - 1) % n

MoveDown(index, n) == (index + 1) % n

\* one turn of the loop of selection_menu
selection_menu ==
    /\ ui = "menu"
    /\ GetKeyReturns
    /\ IF ch = KEY_UP
       THEN selected_index' = MoveUp(selected_index, Len(Options)) /\ UNCHANGED <<ui, choice>>
       ELSE IF ch = KEY_DOWN
       THEN selected_index' = MoveDown(selected_index, Len(Options)) /\ UNCHANGED <<ui, choice>>
       ELSE IF ch = KEY_ENTER
       THEN choice' = Options[selected_index + 1] /\ ui' = "ret" /\ UNCHANGED selected_index
       ELSE IF IsQuitKey(ch)
       THEN choice' = None /\ ui' = "ret" /\ UNCHANGED selected_index
       ELSE UNCHANGED <<ui, choice, selected_index>>
    /\ UNCHANGED <<pc, answer, flow, wifi, img, executed, shown, exit_status, IS_ARCHISO_REAL>>


\* a faulty confirm_result: the chosen option itself is returned, and a non-empty string
\* counts as true
confirm_result_option(key, index) ==
    IF key = KEY_ENTER THEN confirm_options[index + 1] # <<>> ELSE FALSE

\* what confirm returns on the key that ends it: Enter, or else 'q', 'Q' or Ctrl-C
confirm_result(key, index) ==
    IF key = KEY_ENTER THEN StartsWith(confirm_options[index + 1], <<"Yes">>) ELSE FALSE


\* a faulty show_status_result: every key that ends the screen counts as assent
show_status_result_always(key, index) == TRUE

\* what show_status_screen returns on the key that ends it
show_status_result(key, index) ==
    IF key = KEY_ENTER THEN status_options[index + 1] = YES_EXECUTE_NOW ELSE FALSE

\* one turn of the loop of confirm
confirm ==
    /\ ui = "confirm"
    /\ GetKeyReturns
    /\ IF ch = KEY_UP
       THEN selected_index' = MoveUp(selected_index, Len(confirm_options)) /\ UNCHANGED <<ui, answer>>
       ELSE IF ch = KEY_DOWN
       THEN selected_index' = MoveDown(selected_index, Len(confirm_options)) /\ UNCHANGED <<ui, answer>>
       ELSE IF ch = KEY_ENTER \/ IsQuitKey(ch)
       THEN /\ answer' = confirm_result(ch, selected_index)
            /\ ui' = "ret" /\ UNCHANGED selected_index
       ELSE UNCHANGED <<ui, answer, selected_index>>
    /\ UNCHANGED <<pc, choice, flow, wifi, img, executed, shown, exit_status, IS_ARCHISO_REAL>>

\* one turn of the loop of show_status_screen
show_status_screen ==
    /\ ui = "status"
    /\ GetKeyReturns
    /\ IF ch = KEY_UP
       THEN selected_index' = MoveUp(selected_index, Len(status_options)) /\ UNCHANGED <<ui, answer>>
       ELSE IF ch = KEY_DOWN
       THEN selected_index' = MoveDown(selected_index, Len(status_options)) /\ UNCHANGED <<ui, answer>>
       ELSE IF ch = KEY_ENTER \/ IsQuitKey(ch)
       THEN /\ answer' = show_status_result(ch, selected_index)
            /\ ui' = "ret" /\ UNCHANGED selected_index
       ELSE UNCHANGED <<ui, answer, selected_index>>
    /\ UNCHANGED <<pc, choice, flow, wifi, img, executed, shown, exit_status, IS_ARCHISO_REAL>>

\* a bare get_key() after "Press any key": every key continues
press_any_key ==
    /\ ui = "anykey"
    /\ GetKeyReturns
    /\ ui' = "ret"
    /\ UNCHANGED <<pc, selected_index, choice, answer, flow, wifi, img, executed, shown,
                   exit_status, IS_ARCHISO_REAL>>

---------------------------------------------------------------------------
(* What the environment answers: external tools, directories, typed lines *)

\* Outputs of lsblk -d -n -o NAME,SIZE,MODEL: ok is FALSE when the tool is missing or
\* exits non-zero; a line is the list of its whitespace-separated parts
LsblkResults ==
    { [ok |-> FALSE, lines |-> <<>>],
      [ok |-> TRUE, lines |-> <<<<>>>>],
      [ok |-> TRUE, lines |-> << <<"sda", "10G">> >>],
      [ok |-> TRUE, lines |-> << <<"sda", "10G", "Disk", "One">>, <<"loop0">>, <<"sdb", "20G">> >>] }

\* Outputs of obsidianctl status, a line being a string
StatusResults ==
    { [ok |-> FALSE, lines |-> <<>>],
      [ok |-> TRUE, lines |-> << <<"ObsidianOS">> >>],
      [ok |-> TRUE, lines |-> << <<"Slot", SP, "b", SP, "(active)">>, <<"Slot", SP, "a">> >>] }

\* What os.listdir finds: exists is FALSE when the directory cannot be listed
PreconfListings ==
    { [exists |-> FALSE, files |-> <<>>],
      [exists |-> TRUE,
       files |-> << <<"s", ".sfs">>, <<"a", ".mkobsfs">>, <<"notes", ".txt">> >>] }

CurrentDirListings ==
    { [exists |-> FALSE, files |-> <<>>],
      [exists |-> TRUE, files |-> << <<"c", ".mkobsfs">> >>] }

\* the number of cells of the largest scan of the model
ManyCells == 11

\* The cells scan_wifi_networks reads from the output of iwlist scan, in the order of the
\* output; an ESSID may hold blanks, a quality is the text "n/m", one character a chunk,
\* and None when the cell has no Quality= line
ScanResults ==
    { <<>>,
      << [essid |-> <<"my", SP, "home">>, encrypted |-> TRUE,
          quality |-> <<"6", "0", "/", "7", "0">>] >>,
      << [essid |-> <<"home">>, encrypted |-> TRUE,
          quality |-> <<"7", "0", "/", "7", "0">>] >>,
      << [essid |-> <<"cafe">>, encrypted |-> FALSE,
          quality |-> <<"4", "0", "/", "7", "0">>],
         [essid |-> <<"home">>, encrypted |-> TRUE,
          quality |-> <<"7", "0", "/", "7", "0">>] >>,
      << [essid |-> <<"home">>, encrypted |-> TRUE,
          quality |-> <<"7", "0", "/", "7", "0">>],
         [essid |-> <<"cafe">>, encrypted |-> FALSE,
          quality |-> <<"9", "/", "7", "0">>] >>,
      << [essid |-> <<"home">>, encrypted |-> TRUE,
          quality |-> <<"7", "0", "/", "7", "0">>],
         [essid |-> <<"home">>, encrypted |-> FALSE,
          quality |-> <<"4", "0", "/", "7", "0">>] >>,
      << [essid |-> <<"hidden">>, encrypted |-> FALSE, quality |-> None],
         [essid |-> <<"cafe">>, encrypted |-> FALSE,
          quality |-> <<"4", "0", "/", "7", "0">>] >>,
      [i \in 1..ManyCells |->
          [essid |-> <<"net">>, encrypted |-> FALSE,
           quality |-> IF i < ManyCells THEN <<"5", "/", "7", "0">>
                       ELSE <<"1", "0", "/", "7", "0">>]] }

\* A line typed at input(): interrupted (Ctrl-C or end of input), or the text typed
Interrupted == [intr |-> TRUE, text |-> <<>>]

SizeInputs ==
    { Interrupted } \cup
    { [intr |-> FALSE, text |-> t] : t \in { <<>>, <<SP>>, <<SP, "20G", SP>> } }

SsidInputs ==
    { Interrupted } \cup { [intr |-> FALSE, text |-> t] : t \in { <<>>, <<"office">> } }

PasswordInputs ==
    { Interrupted } \cup { [intr |-> FALSE, text |-> t] : t \in { <<>>, <<SP>>, <<"secret">> } }

\* What one backend does when asked to connect
BackendOutcomes == {"ok", "fail", "raise"}

WifiToolNames == {"iwctl", "nmcli", "wpa_supplicant"}

\* The ways through connect_wifi_wpa once the configuration file is written: no wireless
\* interface, wpa_supplicant exits 0 or non-zero, it runs into the timeout, it is not
\* found, or subprocess.run raises an exception that the function does not catch
WpaPaths == {"ok", "nonzero", "no_interface", "timeout", "missing", "raise"}

\* Exit statuses os.system reports
ExitStatuses == {0, 256}

---------------------------------------------------------------------------
(* Discovery *)

\* ' '.join(parts)
RECURSIVE JoinBlank(_)
JoinBlank(parts) ==
    IF parts = <<>> THEN <<>>
    ELSE IF Len(parts) = 1 THEN <<parts[1]>>
    ELSE <<parts[1], SP>> \o JoinBlank(Tail(parts))


\* a faulty DiskRows: a row without a model column is left out
RECURSIVE DiskRowsNeedModel(_)
DiskRowsNeedModel(lines) ==
    IF lines = <<>> THEN <<>>
    ELSE LET parts == Head(lines) IN
         (IF Len(parts) > 2
          THEN << <<"/dev/", parts[1], SP, "(", parts[2], ")", SP, "-", SP>>
                  \o JoinBlank(SubSeq(parts, 3, Len(parts))) >>
          ELSE <<>>)
         \o DiskRowsNeedModel(Tail(lines))

\* the loop of get_disks over the lines of the output
RECURSIVE DiskRows(_)
DiskRows(lines) ==
    IF lines = <<>> THEN <<>>
    ELSE LET parts == Head(lines) IN
         (IF Len(parts) >= 2
          THEN << <<"/dev/", parts[1], SP, "(", parts[2], ")", SP, "-", SP>>
                  \o (IF Len(parts) > 2 THEN JoinBlank(SubSeq(parts, 3, Len(parts)))
                      ELSE <<"Unknown">>) >>
          ELSE <<>>)
         \o DiskRows(Tail(lines))

get_disks(res) == IF res.ok THEN DiskRows(res.lines) ELSE <<>>

\* re.search(r'Slot\s+([ab])', line): the slot letter, or None when nothing matches
RECURSIVE SlotMatch(_)
SlotMatch(line) ==
    IF Len(line) < 3 THEN None
    ELSE IF line[1] = "Slot" /\ line[2] = SP
              /\ LStrip(SubSeq(line, 2, Len(line))) # <<>>
              /\ Head(LStrip(SubSeq(line, 2, Len(line)))) \in {"a", "b"}
         THEN <<Head(LStrip(SubSeq(line, 2, Len(line))))>>
         ELSE SlotMatch(Tail(line))

RECURSIVE SlotsOf(_)
SlotsOf(lines) ==
    IF lines = <<>> THEN <<>>
    ELSE (IF SlotMatch(Head(lines)) # None THEN <<SlotMatch(Head(lines))>> ELSE <<>>)
         \o SlotsOf(Tail(lines))


\* a faulty get_current_slots: without the fallback to the slots a and b
get_current_slots_no_fallback(res) == IF res.ok THEN SlotsOf(res.lines) ELSE <<>>

get_current_slots(res) ==
    IF res.ok /\ SlotsOf(res.lines) # <<>> THEN SlotsOf(res.lines)
    ELSE << <<"a">>, <<"b">> >>

EndsWith(f, ext) == f # <<>> /\ f[Len(f)] = ext

\* the files of a listing with one extension, in listing order
RECURSIVE FilesWith(_, _)
FilesWith(files, exts) ==
    IF files = <<>> THEN <<>>
    ELSE (IF \E e \in exts : EndsWith(Head(files), e) THEN <<Head(files)>> ELSE <<>>)
         \o FilesWith(Tail(files), exts)

\* the order sorted() puts the file names of the model in
NameRank(f) ==
    CASE f[1] = "a" -> 1 [] f[1] = "c" -> 2 [] f[1] = "notes" -> 3 [] f[1] = "s" -> 4
      [] OTHER -> 5

RECURSIVE InsertSorted(_, _)
InsertSorted(f, sortedFiles) ==
    IF sortedFiles = <<>> THEN <<f>>
    ELSE IF NameRank(f) <= NameRank(Head(sortedFiles)) THEN <<f>> \o sortedFiles
    ELSE <<Head(sortedFiles)>> \o InsertSorted(f, Tail(sortedFiles))

RECURSIVE Sorted(_)
Sorted(files) == IF files = <<>> THEN <<>> ELSE InsertSorted(Head(files), Sorted(Tail(files)))

TREE == <<SP, SP, "|-", SP>>

CURRENT_DIR_TAG == <<"[Current Dir]", SP>>

TreeRows(files) == [i \in DOMAIN files |-> TREE \o files[i]]

CREATE_NEW_CONFIG == <<"Create", SP, "New", SP, "Config">>

DEFAULT_SYSTEM_IMAGE == <<"Default", SP, "System", SP, "Image">>

\* a faulty image_options: the files of the current directory come before the others
image_options_local_first(archisoReal, preconf, currentDir) ==
    LET mkobsfs_files == IF preconf.exists THEN FilesWith(preconf.files, {".mkobsfs"}) ELSE <<>>
        sfs_files == IF preconf.exists THEN FilesWith(preconf.files, {".sfs"}) ELSE <<>>
        found == IF currentDir.exists THEN FilesWith(currentDir.files, {".mkobsfs", ".sfs"})
                 ELSE <<>>
        current_dir_files == [i \in DOMAIN found |-> CURRENT_DIR_TAG \o found[i]]
    IN  <<CREATE_NEW_CONFIG>>
        \o (IF archisoReal THEN <<DEFAULT_SYSTEM_IMAGE>> ELSE <<>>)
        \o (IF current_dir_files # <<>>
            THEN << <<"Local", SP, "Directory">> >> \o TreeRows(current_dir_files)
            ELSE <<>>)
        \o (IF mkobsfs_files # <<>>
            THEN << <<"Pre-configured", SP, "Images">> >> \o TreeRows(Sorted(mkobsfs_files))
            ELSE <<>>)
        \o (IF sfs_files # <<>>
            THEN << <<"System", SP, "Images">> >> \o TreeRows(Sorted(sfs_files))
            ELSE <<>>)

\* the option list select_system_image builds
image_options(archisoReal, preconf, currentDir) ==
    LET mkobsfs_files == IF preconf.exists THEN FilesWith(preconf.files, {".mkobsfs"}) ELSE <<>>
        sfs_files == IF preconf.exists THEN FilesWith(preconf.files, {".sfs"}) ELSE <<>>
        found == IF currentDir.exists THEN FilesWith(currentDir.files, {".mkobsfs", ".sfs"})
                 ELSE <<>>
        current_dir_files == [i \in DOMAIN found |-> CURRENT_DIR_TAG \o found[i]]
    IN  <<CREATE_NEW_CONFIG>>
        \o (IF archisoReal THEN <<DEFAULT_SYSTEM_IMAGE>> ELSE <<>>)
        \o (IF mkobsfs_files # <<>>
            THEN << <<"Pre-configured", SP, "Images">> >> \o TreeRows(Sorted(mkobsfs_files))
            ELSE <<>>)
        \o (IF sfs_files # <<>>
            THEN << <<"System", SP, "Images">> >> \o TreeRows(Sorted(sfs_files))
            ELSE <<>>)
        \o (IF current_dir_files # <<>>
            THEN << <<"Local", SP, "Directory">> >> \o TreeRows(current_dir_files)
            ELSE <<>>)

\* filename.replace("[Current Dir] ", "")
RECURSIVE RemoveTag(_)
RemoveTag(s) ==
    IF s = <<>> THEN <<>>
    ELSE IF StartsWith(s, CURRENT_DIR_TAG)
         THEN RemoveTag(SubSeq(s, Len(CURRENT_DIR_TAG) + 1, Len(s)))
         ELSE <<Head(s)>> \o RemoveTag(Tail(s))

\* the path select_system_image makes of a chosen file row
image_filepath(row) ==
    LET filename == SubSeq(row, Len(TREE) + 1, Len(row)) IN
    IF \E i \in DOMAIN row : row[i] = "[Current Dir]"
    THEN RemoveTag(filename)
    ELSE PRECONF_PATH \o <<"/">> \o filename

---------------------------------------------------------------------------
(* WiFi *)

\* wifi_tools as wifi_connection_menu collects them with shutil.which
wifi_tools_found(iwctl, nmcli, wpa) ==
    (IF iwctl THEN <<"iwctl">> ELSE <<>>) \o (IF nmcli THEN <<"nmcli">> ELSE <<>>)
    \o (IF wpa THEN <<"wpa_supplicant">> ELSE <<>>)

\* connect_wifi_wpa on one of its ways: result is what the loop of attempt_wifi_connection
\* sees of the call, config_file what became of the file with the passphrase, which only
\* the os.unlink after subprocess.run removes
connect_wifi_wpa(path) ==
    [result |-> CASE path = "ok" -> "ok" [] path = "raise" -> "raise" [] OTHER -> "fail",
     config_file |-> IF path \in {"ok", "nonzero"} THEN "removed" ELSE "left"]

\* the backends the loop of attempt_wifi_connection calls, in the order of the calls
RECURSIVE attempt_calls(_, _)
attempt_calls(wifi_tools, outcome) ==
    IF wifi_tools = <<>> THEN <<>>
    ELSE IF outcome[Head(wifi_tools)] = "ok" THEN <<Head(wifi_tools)>>
    ELSE <<Head(wifi_tools)>> \o attempt_calls(Tail(wifi_tools), outcome)

\* a faulty attempt_wifi_connection: a backend that raises ends the loop
RECURSIVE attempt_wifi_connection_raise_ends(_, _)
attempt_wifi_connection_raise_ends(wifi_tools, outcome) ==
    IF wifi_tools = <<>> THEN FALSE
    ELSE IF outcome[Head(wifi_tools)] = "ok" THEN TRUE
    ELSE IF outcome[Head(wifi_tools)] = "raise" THEN FALSE
    ELSE attempt_wifi_connection_raise_ends(Tail(wifi_tools), outcome)

\* attempt_wifi_connection: the loop over wifi_tools; outcome[tool] is what the backend does
RECURSIVE attempt_wifi_connection(_, _)
attempt_wifi_connection(wifi_tools, outcome) ==
    IF wifi_tools = <<>> THEN FALSE
    ELSE IF outcome[Head(wifi_tools)] = "ok" THEN TRUE
    ELSE attempt_wifi_connection(Tail(wifi_tools), outcome)

\* What dmidecode -s chassis-type does: it names a laptop chassis, names another chassis,
\* exits non-zero, runs into the timeout, or is not installed
DmiOutcomes == {"laptop", "desktop", "nonzero", "timeout", "missing"}

\* What ip route show default does: a route with a gateway, none, a non-zero exit, the
\* timeout, or ip is not installed
RouteOutcomes == {"via", "novia", "nonzero", "timeout", "missing"}

\* What ping does
PingOutcomes == {"ok", "nonzero", "timeout", "missing"}

\* What ip route get does: the interface is wired, it is wireless, a non-zero exit, the
\* timeout
RouteGetOutcomes == {"wired", "wireless", "nonzero", "timeout"}

\* the outcomes of subprocess.run that is_laptop and has_wired_connection catch
Raises(outcome) == outcome \in {"timeout", "missing"}

\* is_laptop()
is_laptop(battery, dmi, lid) ==
    IF battery THEN TRUE
    ELSE IF Raises(dmi) THEN FALSE
    ELSE IF dmi = "laptop" THEN TRUE
    ELSE lid

\* the probes is_laptop makes, in order
is_laptop_probes(battery, dmi, lid) ==
    <<"battery">>
    \o (IF battery THEN <<>>
        ELSE <<"dmi">> \o (IF Raises(dmi) \/ dmi = "laptop" THEN <<>> ELSE <<"lid">>))

\* has_wired_connection()
has_wired_connection(route, ping, get) ==
    IF route # "via" THEN FALSE
    ELSE IF ping # "ok" THEN FALSE
    ELSE IF Raises(get) THEN FALSE
    ELSE get # "wireless"

\* the probes has_wired_connection makes, in order
has_wired_connection_probes(route, ping, get) ==
    <<"route">>
    \o (IF route # "via" THEN <<>>
        ELSE <<"ping">> \o (IF ping # "ok" THEN <<>> ELSE <<"get">>))

\* the code point order of the characters of a quality
CharRank(c) ==
    CASE c = "/" -> 47 [] c = "0" -> 48 [] c = "1" -> 49 [] c = "2" -> 50 [] c = "3" -> 51
      [] c = "4" -> 52 [] c = "5" -> 53 [] c = "6" -> 54 [] c = "7" -> 55 [] c = "8" -> 56
      [] c = "9" -> 57

\* a > b for two strings, as Python compares them
RECURSIVE StrGreater(_, _)
StrGreater(a, b) ==
    IF a = <<>> THEN FALSE
    ELSE IF b = <<>> THEN TRUE
    ELSE IF Head(a) # Head(b) THEN CharRank(Head(a)) > CharRank(Head(b))
    ELSE StrGreater(Tail(a), Tail(b))

\* s.split('/')[0]
RECURSIVE BeforeSlash(_)
BeforeSlash(s) ==
    IF s = <<>> \/ Head(s) = "/" THEN <<>> ELSE <<Head(s)>> \o BeforeSlash(Tail(s))

\* the sort key of scan_wifi_networks: x.get('quality', '0/0').split('/')[0]
quality_key(network) ==
    BeforeSlash(IF network.quality = None THEN <<"0", "/", "0">> ELSE network.quality)

\* list.sort(key=..., reverse=True) is stable: of two networks with equal keys the one
\* scanned first stays first
RECURSIVE InsertByKey(_, _)
InsertByKey(network, sortedNetworks) ==
    IF sortedNetworks = <<>> THEN <<network>>
    ELSE IF StrGreater(quality_key(Head(sortedNetworks)), quality_key(network))
         THEN <<Head(sortedNetworks)>> \o InsertByKey(network, Tail(sortedNetworks))
         ELSE <<network>> \o sortedNetworks

\* what scan_wifi_networks returns for the cells of a scan
RECURSIVE scan_wifi_networks(_)
scan_wifi_networks(cells) ==
    IF cells = <<>> THEN <<>>
    ELSE InsertByKey(Head(cells), scan_wifi_networks(Tail(cells)))

\* the network scan_and_connect_wifi looks up for the chosen row: its index, 0 when none
RECURSIVE FindNetwork(_, _, _)
FindNetwork(networks, ssid, i) ==
    IF i > Len(networks) THEN 0
    ELSE IF networks[i].essid = ssid THEN i
    ELSE FindNetwork(networks, ssid, i + 1)

\* choice.split(' ', 2)[1]
SecondField(s) == FirstField(AfterFirstBlank(s))

---------------------------------------------------------------------------
(* Command assembly *)


\* a faulty install_command: the image path is appended before the disk path
install_command_image_first(action, dual_boot, partition_sizes, file_system_type, disk, image_path) ==
    OBSIDIANCTL_PATH \o <<SP>> \o LowerStr(action)
    \o (IF dual_boot THEN <<SP, "--dual-boot">> ELSE <<>>)
    \o <<SP, "--esp-size", SP>> \o partition_sizes.esp_size
    \o <<SP, "--rootfs-size", SP>> \o partition_sizes.rootfs_size
    \o <<SP, "--etc-size", SP>> \o partition_sizes.etc_size
    \o <<SP, "--var-size", SP>> \o partition_sizes.var_size
    \o (IF file_system_type = <<"f2fs">> THEN <<SP, "--use-f2fs">> ELSE <<>>)
    \o <<SP>> \o image_path \o <<SP>> \o disk

\* the command installation_flow builds
install_command(action, dual_boot, partition_sizes, file_system_type, disk, image_path) ==
    OBSIDIANCTL_PATH \o <<SP>> \o LowerStr(action)
    \o (IF dual_boot THEN <<SP, "--dual-boot">> ELSE <<>>)
    \o <<SP, "--esp-size", SP>> \o partition_sizes.esp_size
    \o <<SP, "--rootfs-size", SP>> \o partition_sizes.rootfs_size
    \o <<SP, "--etc-size", SP>> \o partition_sizes.etc_size
    \o <<SP, "--var-size", SP>> \o partition_sizes.var_size
    \o (IF file_system_type = <<"f2fs">> THEN <<SP, "--use-f2fs">> ELSE <<>>)
    \o <<SP>> \o disk \o <<SP>> \o image_path

\* the command update_flow builds
update_command(slot, image_path, selected_disk) ==
    OBSIDIANCTL_PATH \o <<SP, "update", SP>> \o slot \o <<SP>> \o image_path
    \o (IF selected_disk # None THEN <<SP, "--device", SP>> \o selected_disk ELSE <<>>)

REBOOT_COMMAND == <<"sudo", SP, "reboot">>

\* the command the script runs first on an installation medium not yet resized
RESIZE_COMMAND == <<"mount", SP, "-o", SP, "remount,size=75%", SP, "/run/archiso/cowspace">>

---------------------------------------------------------------------------
(* Steps shared by the flows *)

keyvars == <<gk, ch, exc, term, old_settings>>

\* a widget is opened at a call site with its cursor on the first option
OpenWidget(site, kind) ==
    /\ pc' = site
    /\ ui' = kind
    /\ selected_index' = 0
    /\ choice' = None
    /\ answer' = FALSE

\* the flow function returns to main(), its locals are gone, and the loop of main()
\* opens the main menu again
ReturnToMain ==
    /\ OpenWidget("main", "menu")
    /\ flow' = NoFlow
    /\ wifi' = NoWifi
    /\ img' = NoImg
    /\ executed' = <<>>
    /\ shown' = ""
    /\ UNCHANGED <<keyvars, exit_status, IS_ARCHISO_REAL>>


\* a faulty EndScript: the SystemExit handler ends the script with status 1
EndScriptFailing(banner) ==
    /\ pc' = "exit"
    /\ ui' = "done"
    /\ shown' = (banner)
    /\ exit_status' = 1
    /\ UNCHANGED <<selected_index, choice, answer, keyvars, flow, wifi, img, executed,
                   IS_ARCHISO_REAL>>

\* the script ends: sys.exit(0) or an uncaught interrupt reaches the handlers at the end
\* of the script, a banner is printed and the interpreter falls off the end of the file
EndScript(banner) ==
    /\ pc' = "exit"
    /\ ui' = "done"
    /\ shown' = (banner)
    /\ exit_status' = 0
    /\ UNCHANGED <<selected_index, choice, answer, keyvars, flow, wifi, img, executed,
                   IS_ARCHISO_REAL>>


\* a faulty run_command: a command that failed is executed a second time
run_command_retries(command, site) ==
    /\ \E result \in ExitStatuses :
          /\ executed' = (IF result = 0 THEN Append(executed, command)
                                        ELSE Append(Append(executed, command), command))
          /\ flow' = [flow EXCEPT !.result = result]
          /\ shown' = (IF result = 0 THEN "Command completed successfully!"
                                 ELSE "Command failed with errors!")
    /\ OpenWidget(site, "anykey")

\* run_command up to its get_key(): os.system(command) once, then the banner
run_command(command, site) ==
    /\ executed' = Append(executed, command)
    /\ \E result \in ExitStatuses :
          /\ flow' = [flow EXCEPT !.result = result]
          /\ shown' = (IF result = 0 THEN "Command completed successfully!"
                                 ELSE "Command failed with errors!")
    /\ OpenWidget(site, "anykey")

\* An exception that left get_key reaches, no function catching it, the handlers of the
\* script.  During the resizing at the start of the script an interrupt is reported and
\* main() called, any other exception is reported and the reboot command run; an
\* exception during that reboot command is caught by nothing and ends the interpreter
\* with a traceback; an exception out of main() is reported, after which the script
\* ends.
Propagate ==
    /\ gk' = "out"
    /\ ch' = <<>>
    /\ exc' = "none"
    /\ CASE pc = "run_resize" /\ exc = "interrupt" ->
              /\ OpenWidget("main", "menu")
              /\ flow' = NoFlow
              /\ executed' = <<>>
              /\ shown' = ""
              /\ UNCHANGED exit_status
         [] pc = "run_resize" /\ exc # "interrupt" ->
              /\ run_command(REBOOT_COMMAND, "run_error_reboot")
              /\ UNCHANGED exit_status
         [] pc = "run_error_reboot" ->
              /\ pc' = "exit" /\ ui' = "done"
              /\ shown' = ("Traceback")
              /\ exit_status' = (IF exc = "interrupt" THEN 130 ELSE 1)
              /\ UNCHANGED <<selected_index, choice, answer, flow, executed>>
         [] OTHER ->
              /\ pc' = "exit" /\ ui' = "done"
              /\ shown' = (IF exc = "interrupt" THEN "Installation cancelled by user"
                                                  ELSE "CRITICAL ERROR")
              /\ exit_status' = 0
              /\ UNCHANGED <<selected_index, choice, answer, flow, executed>>
    /\ UNCHANGED <<wifi, img, IS_ARCHISO_REAL>>

\* a faulty GetKeyRaises: get_key without try/finally, so that an exception leaves it
\* with the terminal as it is
GetKeyRaisesNoFinally ==
    /\ gk = "fin"
    /\ exc # "none"
    /\ Propagate
    /\ UNCHANGED <<term, old_settings>>

\* An exception leaves get_key through the finally clause
GetKeyRaises ==
    /\ gk = "fin"
    /\ exc # "none"
    /\ Restore
    /\ Propagate
    /\ UNCHANGED old_settings


\* a faulty reset_to_defaults: the file system type is left as it is
reset_sizes_only(f) == [f EXCEPT !.partition_sizes = DEFAULT_PARTITION_SIZES]

\* partition_sizes = DEFAULT_PARTITION_SIZES.copy(); file_system_type = "ext4": the
\* editor works on a copy, so that DEFAULT_PARTITION_SIZES itself is never written
reset_to_defaults(f) ==
    [f EXCEPT !.partition_sizes = DEFAULT_PARTITION_SIZES,
              !.file_system_type = <<"ext4">>]

\* advanced_settings_menu is entered: its locals start from the defaults
EnterAdvancedSettings(f) ==
    /\ flow' = reset_to_defaults(f)
    /\ wifi' = NoWifi
    /\ OpenWidget("adv", "menu")
    /\ UNCHANGED <<keyvars, img, executed, shown, exit_status, IS_ARCHISO_REAL>>

\* select_system_image is entered: the directories are listed and the menu is built
EnterSelectImage(f) ==
    /\ flow' = f
    /\ \E preconf \in PreconfListings, currentDir \in CurrentDirListings :
          img' = [options |-> image_options(IS_ARCHISO_REAL, preconf, currentDir),
                  filepath |-> None, preconf |-> preconf, current_dir |-> currentDir]
    /\ OpenWidget("image", "menu")
    /\ UNCHANGED <<keyvars, wifi, executed, shown, exit_status, IS_ARCHISO_REAL>>

\* select_system_image returns a path: the flow goes on to show_status_screen
ImageSelected(f, path) ==
    /\ flow' = [f EXCEPT !.image_path = path]
    /\ img' = NoImg
    /\ OpenWidget("status", "status")
    /\ UNCHANGED <<keyvars, wifi, executed, shown, exit_status, IS_ARCHISO_REAL>>

\* get_disks() and what both flows do with its result; lsblk keeps what the tool answered
DiscoverDisks(f, emptySite, menuSite) ==
    \E res \in LsblkResults :
       IF get_disks(res) = <<>>
       THEN /\ flow' = [f EXCEPT !.lsblk = <<res>>]
            /\ shown' = ("NO DISKS DETECTED")
            /\ OpenWidget(emptySite, "anykey")
            /\ UNCHANGED <<keyvars, wifi, img, executed, exit_status, IS_ARCHISO_REAL>>
       ELSE /\ flow' = [f EXCEPT !.lsblk = <<res>>, !.disks = get_disks(res)]
            /\ OpenWidget(menuSite, "menu")
            /\ UNCHANGED <<keyvars, wifi, img, executed, shown, exit_status, IS_ARCHISO_REAL>>

\* the WiFi Setup menu is shown (again)
OpenWifiMenu ==
    /\ wifi' = [wifi EXCEPT !.networks = <<>>, !.ssid = None, !.password = None,
                            !.tried = <<>>, !.results = <<>>, !.config_file = "none"]
    /\ OpenWidget("wifi_setup", "menu")
    /\ UNCHANGED <<keyvars, flow, img, executed, shown, exit_status, IS_ARCHISO_REAL>>

\* attempt_wifi_connection is called and its outcome is shown, up to the get_key()
AttemptAndShow(ssid, password) ==
    /\ \E outcome \in [WifiToolNames -> BackendOutcomes], path \in WpaPaths :
          LET tried == attempt_calls(wifi.wifi_tools, outcome) IN
          /\ connect_wifi_wpa(path).result = outcome["wpa_supplicant"]
          /\ wifi' = [wifi EXCEPT !.ssid = ssid, !.password = password, !.tried = tried,
                                  !.results = [i \in DOMAIN tried |-> outcome[tried[i]]],
                                  !.config_file =
                                     IF \E i \in DOMAIN tried : tried[i] = "wpa_supplicant"
                                     THEN connect_wifi_wpa(path).config_file
                                     ELSE "none"]
          /\ IF attempt_wifi_connection(wifi.wifi_tools, outcome)
             THEN /\ shown' = ("WiFi connection successful!")
                  /\ OpenWidget("wifi_connected", "anykey")
             ELSE /\ shown' = ("Connection failed")
                  /\ OpenWidget("wifi_failed", "anykey")
    /\ UNCHANGED <<keyvars, flow, img, executed, exit_status, IS_ARCHISO_REAL>>

---------------------------------------------------------------------------
(* main() *)


\* the start of the script: unless /etc/obsidian-wizard-resized exists the tmpfs is
\* resized with run_command; then main() is called
resize_tmpfs ==
    /\ pc = "startup"
    /\ ui = "call"
    /\ \E resized \in BOOLEAN :
          IF IS_ARCHISO /\ ~resized
          THEN /\ run_command(RESIZE_COMMAND, "run_resize")
               /\ UNCHANGED <<keyvars, wifi, img, exit_status, IS_ARCHISO_REAL>>
          ELSE ReturnToMain

\* after the resizing the marker file is created and main() called; when the file cannot
\* be created the error is reported and the reboot command run
resize_tmpfs_returns ==
    /\ pc = "run_resize"
    /\ ui = "ret"
    /\ \E created \in BOOLEAN :
          IF created
          THEN ReturnToMain
          ELSE /\ run_command(REBOOT_COMMAND, "run_error_reboot")
               /\ UNCHANGED <<keyvars, wifi, img, exit_status, IS_ARCHISO_REAL>>

\* the reboot command of the error handler has returned: main() is called
error_reboot_returns ==
    /\ pc = "run_error_reboot"
    /\ ui = "ret"
    /\ ReturnToMain

SWITCH_TEMPORARY == <<"Switch", SP, "Slot", SP, "and", SP, "Reboot", SP, "(temporary)">>

SWITCH_PERMANENT == <<"Switch", SP, "Slot", SP, "and", SP, "Reboot", SP, "(permanent)">>

\* the command main() builds for a slot operation; NEXT_SLOT is what get_next_slot()
\* found when the script was loaded
slot_command(operation, res) ==
    OBSIDIANCTL_PATH \o <<SP, operation, SP>> \o get_next_slot(get_current_slots(res))

\* the branch main() takes on the choice made in the main menu
main ==
    /\ pc = "main"
    /\ ui = "ret"
    /\ CASE choice = <<"Install", SP, "ObsidianOS">> ->
              /\ flow' = [NoFlow EXCEPT !.action = <<"Install">>]
              /\ OpenWidget("dual_boot", "menu")
              /\ UNCHANGED <<keyvars, wifi, img, executed, shown, exit_status, IS_ARCHISO_REAL>>
         [] choice = <<"Repair", SP, "ObsidianOS">> ->
              /\ flow' = [NoFlow EXCEPT !.action = <<"Repair">>]
              /\ OpenWidget("disk_selection", "menu")
              /\ UNCHANGED <<keyvars, wifi, img, executed, shown, exit_status, IS_ARCHISO_REAL>>
         [] choice = <<"Update", SP, "System">> ->
              /\ flow' = [NoFlow EXCEPT !.action = <<"Update">>]
              /\ OpenWidget("disk_selection", "menu")
              /\ UNCHANGED <<keyvars, wifi, img, executed, shown, exit_status, IS_ARCHISO_REAL>>
         [] choice = SWITCH_TEMPORARY ->
              /\ \E res \in StatusResults :
                    run_command(slot_command("switch-once", res), "run_switch")
              /\ UNCHANGED <<keyvars, wifi, img, exit_status, IS_ARCHISO_REAL>>
         [] choice = SWITCH_PERMANENT ->
              /\ \E res \in StatusResults :
                    run_command(slot_command("switch", res), "run_switch")
              /\ UNCHANGED <<keyvars, wifi, img, exit_status, IS_ARCHISO_REAL>>
         [] choice = <<"Sync", SP, "slots">> ->
              /\ \E res \in StatusResults :
                    run_command(slot_command("sync", res), "run_sync")
              /\ UNCHANGED <<keyvars, wifi, img, exit_status, IS_ARCHISO_REAL>>
         [] choice = <<"Drop", SP, "to", SP, "Terminal">> ->
              EndScript("Installation cancelled by user")
         [] choice = <<"Reboot", SP, "System">> ->
              /\ flow' = [NoFlow EXCEPT !.action = <<"Reboot">>]
              /\ OpenWidget("reboot_confirm", "confirm")
              /\ UNCHANGED <<keyvars, wifi, img, executed, shown, exit_status, IS_ARCHISO_REAL>>
         [] choice = None ->
              EndScript("Installation cancelled by user")
         [] OTHER -> ReturnToMain

\* reboot_system after its confirm returned
reboot_system ==
    /\ pc = "reboot_confirm"
    /\ ui = "ret"
    /\ IF answer
       THEN /\ run_command(REBOOT_COMMAND, "run_reboot")
            /\ UNCHANGED <<keyvars, wifi, img, exit_status, IS_ARCHISO_REAL>>
       ELSE ReturnToMain

\* run_command returns after its get_key(): after a slot switch main() calls
\* reboot_system(), whatever the exit status was; otherwise the flow that called it
\* returns and so does the branch of main()
run_command_returns ==
    /\ pc \in {"run_install", "run_update", "run_reboot", "run_switch", "run_sync"}
    /\ ui = "ret"
    /\ IF pc = "run_switch"
       THEN /\ OpenWidget("reboot_confirm", "confirm")
            /\ UNCHANGED <<keyvars, flow, wifi, img, executed, shown, exit_status,
                           IS_ARCHISO_REAL>>
       ELSE ReturnToMain

---------------------------------------------------------------------------
(* installation_flow *)

\* after the dual-boot menu: dual_boot is set and wifi_connection_menu() is called, which
\* first classifies the machine: is_laptop(), and for a laptop has_wired_connection()
installation_flow_dual_boot ==
    /\ pc = "dual_boot"
    /\ ui = "ret"
    /\ IF choice = None
       THEN ReturnToMain
       ELSE \E battery \in BOOLEAN, dmi \in DmiOutcomes, lid \in BOOLEAN :
               /\ flow' = [flow EXCEPT !.dual_boot = StartsWith(choice, <<"Enable">>)]
               /\ IF is_laptop(battery, dmi, lid)
                  THEN \E route \in RouteOutcomes, ping \in PingOutcomes,
                          get \in RouteGetOutcomes :
                          wifi' = [NoWifi EXCEPT
                                     !.laptop = TRUE,
                                     !.wired = has_wired_connection(route, ping, get),
                                     !.probes = [battery |-> battery, dmi |-> dmi,
                                                 lid |-> lid, route |-> route,
                                                 ping |-> ping, get |-> get],
                                     !.probed = is_laptop_probes(battery, dmi, lid)
                                        \o has_wired_connection_probes(route, ping, get)]
                  ELSE wifi' = [NoWifi EXCEPT
                                  !.probes.battery = battery, !.probes.dmi = dmi,
                                  !.probes.lid = lid,
                                  !.probed = is_laptop_probes(battery, dmi, lid)]
               /\ OpenWidget("wifi_check", "call")
               /\ UNCHANGED <<keyvars, img, executed, shown, exit_status, IS_ARCHISO_REAL>>

\* wifi_connection_menu on a laptop without a wired connection: the backends and the
\* wireless interfaces are looked up; without either the fact is shown and a key awaited,
\* otherwise the WiFi Setup menu opens
ProbeWifi ==
    \E iwctl \in BOOLEAN, nmcli \in BOOLEAN, wpa \in BOOLEAN,
       interfaces \in {<<>>, << <<"wlan0">> >>} :
       LET wifi_tools == wifi_tools_found(iwctl, nmcli, wpa)
       IN  IF wifi_tools = <<>>
           THEN /\ wifi' = [NoWifi EXCEPT !.laptop = wifi.laptop, !.wired = wifi.wired]
                /\ shown' = ("No WiFi tools detected on this system")
                /\ OpenWidget("wifi_no_tools", "anykey")
                /\ UNCHANGED <<keyvars, flow, img, executed, exit_status, IS_ARCHISO_REAL>>
           ELSE IF interfaces = <<>>
           THEN /\ wifi' = [NoWifi EXCEPT !.laptop = wifi.laptop, !.wired = wifi.wired,
                                          !.wifi_tools = wifi_tools]
                /\ shown' = ("No wireless interfaces detected")
                /\ OpenWidget("wifi_no_interfaces", "anykey")
                /\ UNCHANGED <<keyvars, flow, img, executed, exit_status, IS_ARCHISO_REAL>>
           ELSE /\ wifi' = [NoWifi EXCEPT !.laptop = wifi.laptop, !.wired = wifi.wired,
                                          !.wifi_tools = wifi_tools,
                                          !.interface = interfaces[1]]
                /\ OpenWidget("wifi_setup", "menu")
                /\ UNCHANGED <<keyvars, flow, img, executed, shown, exit_status,
                               IS_ARCHISO_REAL>>

\* a faulty wifi_connection_menu_enter: the wired connection is not taken into account
wifi_connection_menu_enter_ignores_wired ==
    /\ pc = "wifi_check"
    /\ ui = "call"
    /\ IF ~wifi.laptop THEN EnterAdvancedSettings(flow) ELSE ProbeWifi

\* wifi_connection_menu after the classification: a desktop and a wired laptop return
\* True at once, and the flow goes on to the settings editor
wifi_connection_menu_enter ==
    /\ pc = "wifi_check"
    /\ ui = "call"
    /\ IF ~wifi.laptop \/ wifi.wired THEN EnterAdvancedSettings(flow) ELSE ProbeWifi


\* a faulty wifi_connection_menu_blocked: the missing tools or interfaces are reported
\* and the flow goes on without a network
wifi_connection_menu_blocked_proceeds ==
    /\ pc \in {"wifi_no_tools", "wifi_no_interfaces"}
    /\ ui = "ret"
    /\ EnterAdvancedSettings(flow)

\* wifi_connection_menu returned False after reporting that WiFi cannot be set up
wifi_connection_menu_blocked ==
    /\ pc \in {"wifi_no_tools", "wifi_no_interfaces"}
    /\ ui = "ret"
    /\ ReturnToMain

\* the loop of wifi_connection_menu after the WiFi Setup menu returned
wifi_connection_menu ==
    /\ pc = "wifi_setup"
    /\ ui = "ret"
    /\ IF choice = None
       THEN ReturnToMain
       ELSE IF choice = <<"Scan", SP, "for", SP, "Networks">>
       THEN \E cells \in ScanResults :
               LET networks == scan_wifi_networks(cells) IN
               IF networks = <<>>
               THEN /\ shown' = ("No networks found")
                    /\ OpenWidget("scan_none", "anykey")
                    /\ UNCHANGED <<keyvars, flow, wifi, img, executed, exit_status,
                                   IS_ARCHISO_REAL>>
               ELSE /\ wifi' = [wifi EXCEPT !.networks = networks]
                    /\ OpenWidget("wifi_networks", "menu")
                    /\ UNCHANGED <<keyvars, flow, img, executed, shown, exit_status,
                                   IS_ARCHISO_REAL>>
       ELSE \E ssidLine \in SsidInputs, passwordLine \in PasswordInputs :
               IF ssidLine.intr \/ Strip(ssidLine.text) = <<>> \/ passwordLine.intr
               THEN OpenWifiMenu
               ELSE AttemptAndShow(Strip(ssidLine.text),
                                   IF Strip(passwordLine.text) = <<>> THEN None
                                   ELSE Strip(passwordLine.text))

\* the loop of scan_and_connect_wifi after the network list returned
scan_and_connect_wifi ==
    /\ pc = "wifi_networks"
    /\ ui = "ret"
    /\ IF choice = None \/ choice = BACK_TO_WIFI
       THEN OpenWifiMenu
       ELSE LET ssid == IF \E i \in DOMAIN choice : choice[i] \in {"LOCK", "OPEN"}
                        THEN SecondField(choice) ELSE FirstField(choice)
                found == FindNetwork(wifi.networks, ssid, 1)
                encrypted == found # 0 /\ wifi.networks[found].encrypted
            IN  IF encrypted
                THEN \E passwordLine \in PasswordInputs :
                        IF passwordLine.intr \/ Strip(passwordLine.text) = <<>>
                        THEN /\ OpenWidget("wifi_networks", "menu")
                             /\ UNCHANGED <<keyvars, flow, wifi, img, executed, shown,
                                            exit_status, IS_ARCHISO_REAL>>
                        ELSE AttemptAndShow(ssid, Strip(passwordLine.text))
                ELSE AttemptAndShow(ssid, None)


\* a faulty wifi_try_again: a failed attempt makes wifi_connection_menu return False
wifi_try_again_aborts ==
    /\ pc \in {"scan_none", "wifi_failed"}
    /\ ui = "ret"
    /\ ReturnToMain

\* after "Press any key": the scan or the attempt failed and the WiFi Setup menu returns
wifi_try_again ==
    /\ pc \in {"scan_none", "wifi_failed"}
    /\ ui = "ret"
    /\ OpenWifiMenu


\* a faulty wifi_connected: the flow goes from the network step straight to disk discovery
wifi_connected_skips_settings ==
    /\ pc = "wifi_connected"
    /\ ui = "ret"
    /\ DiscoverDisks(flow, "no_disks", "disk")

\* after "Press any key": connected, wifi_connection_menu returns True and the flow goes on
wifi_connected ==
    /\ pc = "wifi_connected"
    /\ ui = "ret"
    /\ EnterAdvancedSettings(flow)


\* the partition size an option of the settings editor stands for
size_key(option) ==
    CASE StartsWith(option, <<"ESP", SP, "Size:">>) -> "esp_size"
      [] StartsWith(option, <<"Root", SP, "FS", SP, "Size:">>) -> "rootfs_size"
      [] StartsWith(option, <<"ETC", SP, "Size:">>) -> "etc_size"
      [] OTHER -> "var_size"

\* a faulty set_size: a blank entry puts the default back
set_size_blank_resets(partition_sizes, key, text) ==
    [partition_sizes EXCEPT ![key] = IF Strip(text) # <<>> THEN Strip(text)
                                     ELSE DEFAULT_PARTITION_SIZES[key]]

\* new_size = input(...).strip(); if new_size: partition_sizes[key] = new_size
set_size(partition_sizes, key, text) ==
    IF Strip(text) # <<>> THEN [partition_sizes EXCEPT ![key] = Strip(text)]
    ELSE partition_sizes

\* the loop of advanced_settings_menu after its menu returned
advanced_settings_menu ==
    /\ pc = "adv"
    /\ ui = "ret"
    /\ IF choice = None
       THEN ReturnToMain
       ELSE IF \/ StartsWith(choice, <<"ESP", SP, "Size:">>)
               \/ StartsWith(choice, <<"Root", SP, "FS", SP, "Size:">>)
               \/ StartsWith(choice, <<"ETC", SP, "Size:">>)
               \/ StartsWith(choice, <<"VAR", SP, "Size:">>)
       THEN \E line \in SizeInputs :
               IF line.intr
               THEN EndScript("Installation cancelled by user")
               ELSE /\ flow' = [flow EXCEPT !.partition_sizes =
                                        set_size(flow.partition_sizes, size_key(choice),
                                                 line.text)]
                    /\ OpenWidget("adv", "menu")
                    /\ UNCHANGED <<keyvars, wifi, img, executed, shown, exit_status,
                                   IS_ARCHISO_REAL>>
       ELSE IF StartsWith(choice, <<"File", SP, "System", SP, "Type:">>)
       THEN /\ OpenWidget("adv_fs", "menu")
            /\ UNCHANGED <<keyvars, flow, wifi, img, executed, shown, exit_status,
                           IS_ARCHISO_REAL>>
       ELSE IF choice = RESET_TO_DEFAULTS
       THEN /\ flow' = reset_to_defaults(flow)
            /\ OpenWidget("adv", "menu")
            /\ UNCHANGED <<keyvars, wifi, img, executed, shown, exit_status, IS_ARCHISO_REAL>>
       ELSE IF choice = SAVE_AND_CONTINUE
       THEN /\ OpenWidget("adv_confirm", "confirm")
            /\ UNCHANGED <<keyvars, flow, wifi, img, executed, shown, exit_status,
                           IS_ARCHISO_REAL>>
       ELSE /\ OpenWidget("adv", "menu")
            /\ UNCHANGED <<keyvars, flow, wifi, img, executed, shown, exit_status,
                           IS_ARCHISO_REAL>>


\* a faulty advanced_settings_menu_fs: a cancelled file system menu ends the editor
\* and with it the flow
advanced_settings_menu_fs_aborts ==
    /\ pc = "adv_fs"
    /\ ui = "ret"
    /\ IF choice = None
       THEN ReturnToMain
       ELSE /\ flow' = [flow EXCEPT !.file_system_type = choice]
            /\ OpenWidget("adv", "menu")
            /\ UNCHANGED <<keyvars, wifi, img, executed, shown, exit_status, IS_ARCHISO_REAL>>

\* advanced_settings_menu after the file system menu returned
advanced_settings_menu_fs ==
    /\ pc = "adv_fs"
    /\ ui = "ret"
    /\ flow' = IF choice # None THEN [flow EXCEPT !.file_system_type = choice] ELSE flow
    /\ OpenWidget("adv", "menu")
    /\ UNCHANGED <<keyvars, wifi, img, executed, shown, exit_status, IS_ARCHISO_REAL>>


\* the details the confirm of "Save and Continue" lists
save_details(partition_sizes, file_system_type) ==
    << <<"ESP", SP, "Size:", SP>> \o partition_sizes.esp_size,
       <<"Root", SP, "FS", SP, "Size:", SP>> \o partition_sizes.rootfs_size,
       <<"ETC", SP, "Size:", SP>> \o partition_sizes.etc_size,
       <<"VAR", SP, "Size:", SP>> \o partition_sizes.var_size,
       <<"File", SP, "System", SP, "Type:", SP>> \o Upper(file_system_type),
       <<"These", SP, "settings", SP, "will", SP, "be", SP, "used", SP, "for", SP, "the",
         SP, "installation">> >>

\* a faulty advanced_settings_menu_save: the settings are returned whatever the answer
advanced_settings_menu_save_unconfirmed ==
    /\ pc = "adv_confirm"
    /\ ui = "ret"
    /\ DiscoverDisks(flow, "no_disks", "disk")

\* advanced_settings_menu after the confirm of "Save and Continue" returned: on True it
\* returns the settings and installation_flow goes on to get_disks()
advanced_settings_menu_save ==
    /\ pc = "adv_confirm"
    /\ ui = "ret"
    /\ IF answer
       THEN DiscoverDisks(flow, "no_disks", "disk")
       ELSE /\ OpenWidget("adv", "menu")
            /\ UNCHANGED <<keyvars, flow, wifi, img, executed, shown, exit_status,
                           IS_ARCHISO_REAL>>

\* both flows return after "NO DISKS DETECTED" and a key
no_disks_detected ==
    /\ pc \in {"no_disks", "upd_no_disks"}
    /\ ui = "ret"
    /\ ReturnToMain


\* a faulty installation_flow_disk: the check for a cancelled disk menu is missing
installation_flow_disk_unchecked ==
    /\ pc = "disk"
    /\ ui = "ret"
    /\ EnterSelectImage([flow EXCEPT !.disk = FirstField(choice)])

\* installation_flow after the disk menu returned
installation_flow_disk ==
    /\ pc = "disk"
    /\ ui = "ret"
    /\ IF choice = None
       THEN ReturnToMain
       ELSE EnterSelectImage([flow EXCEPT !.disk = FirstField(choice)])

\* the loop of select_system_image after its menu returned
select_system_image ==
    /\ pc = "image"
    /\ ui = "ret"
    /\ IF choice = None
       THEN ReturnToMain
       ELSE IF StartsWith(choice, DEFAULT_SYSTEM_IMAGE)
       THEN /\ img' = [img EXCEPT !.filepath = DEFAULT_IMAGE]
            /\ OpenWidget("image_confirm", "confirm")
            /\ UNCHANGED <<keyvars, flow, wifi, executed, shown, exit_status, IS_ARCHISO_REAL>>
       ELSE IF StartsWith(choice, <<"Create">>)
       THEN ImageSelected([flow EXCEPT !.editor_command = EDITOR_COMMAND], CONFIG_FILE_PATH)
       ELSE IF StartsWith(choice, <<SP, SP, "|-">>)
       THEN /\ img' = [img EXCEPT !.filepath = image_filepath(choice)]
            /\ OpenWidget("image_confirm", "confirm")
            /\ UNCHANGED <<keyvars, flow, wifi, executed, shown, exit_status, IS_ARCHISO_REAL>>
       ELSE /\ OpenWidget("image", "menu")
            /\ UNCHANGED <<keyvars, flow, wifi, img, executed, shown, exit_status,
                           IS_ARCHISO_REAL>>

\* select_system_image after the confirm of a default image or a file returned
select_system_image_confirm ==
    /\ pc = "image_confirm"
    /\ ui = "ret"
    /\ IF answer
       THEN ImageSelected(flow, img.filepath)
       ELSE /\ img' = [img EXCEPT !.filepath = None]
            /\ OpenWidget("image", "menu")
            /\ UNCHANGED <<keyvars, flow, wifi, executed, shown, exit_status, IS_ARCHISO_REAL>>

\* installation_flow after show_status_screen returned
installation_flow_execute ==
    /\ pc = "status"
    /\ ui = "ret"
    /\ flow.action = <<"Install">>
    /\ IF answer
       THEN /\ run_command(install_command(flow.action, flow.dual_boot, flow.partition_sizes,
                                           flow.file_system_type, flow.disk, flow.image_path),
                           "run_install")
            /\ UNCHANGED <<keyvars, wifi, img, exit_status, IS_ARCHISO_REAL>>
       ELSE ReturnToMain

---------------------------------------------------------------------------
(* update_flow *)

\* get_current_slots() is called and the slot menu is opened
OpenSlotMenu(f) ==
    /\ \E res \in StatusResults : flow' = [f EXCEPT !.slots = get_current_slots(res)]
    /\ OpenWidget("slot", "menu")
    /\ UNCHANGED <<keyvars, wifi, img, executed, shown, exit_status, IS_ARCHISO_REAL>>


\* a faulty update_flow_disk_selection: the flow has no disk step and goes on to the slot
\* menu whatever was chosen
update_flow_disk_selection_skips ==
    /\ pc = "disk_selection"
    /\ ui = "ret"
    /\ IF choice = None THEN ReturnToMain ELSE OpenSlotMenu(flow)

\* update_flow after the "Current Disk / Select a Disk" menu returned
update_flow_disk_selection ==
    /\ pc = "disk_selection"
    /\ ui = "ret"
    /\ IF choice = None
       THEN ReturnToMain
       ELSE IF choice = <<"Select", SP, "a", SP, "Disk">>
       THEN DiscoverDisks(flow, "upd_no_disks", "upd_disk")
       ELSE OpenSlotMenu(flow)

\* update_flow after the disk menu returned
update_flow_disk ==
    /\ pc = "upd_disk"
    /\ ui = "ret"
    /\ IF choice = None
       THEN ReturnToMain
       ELSE OpenSlotMenu([flow EXCEPT !.selected_disk = FirstField(choice)])

\* update_flow after the slot menu returned
update_flow_slot ==
    /\ pc = "slot"
    /\ ui = "ret"
    /\ IF choice = None
       THEN ReturnToMain
       ELSE EnterSelectImage(
               [flow EXCEPT !.slot = LowerStr(SubSeq(choice, 3, Len(choice)))])

\* update_flow after show_status_screen returned
update_flow_execute ==
    /\ pc = "status"
    /\ ui = "ret"
    /\ flow.action \in {<<"Repair">>, <<"Update">>}
    /\ IF answer
       THEN /\ run_command(update_command(flow.slot, flow.image_path, flow.selected_disk),
                           "run_update")
            /\ UNCHANGED <<keyvars, wifi, img, exit_status, IS_ARCHISO_REAL>>
       ELSE ReturnToMain

---------------------------------------------------------------------------
(* The specification *)

Init ==
    /\ pc = "startup"
    /\ ui = "call"
    /\ selected_index = 0
    /\ choice = None
    /\ answer = FALSE
    /\ gk = "out"
    /\ ch = <<>>
    /\ exc = "none"
    /\ term = "cooked"
    /\ old_settings = "cooked"
    /\ flow = NoFlow
    /\ wifi = NoWifi
    /\ img = NoImg
    /\ executed = <<>>
    /\ shown = ""
    /\ exit_status = -1
    /\ IS_ARCHISO_REAL \in BOOLEAN

Next ==
    \/ GetKeySave
    \/ GetKeySetRaw
    \/ GetKeyRead
    \/ GetKeyReadEsc
    \/ GetKeyRaises
    \/ selection_menu
    \/ confirm
    \/ show_status_screen
    \/ press_any_key
    \/ resize_tmpfs
    \/ resize_tmpfs_returns
    \/ error_reboot_returns
    \/ main
    \/ reboot_system
    \/ run_command_returns
    \/ installation_flow_dual_boot
    \/ wifi_connection_menu_enter
    \/ wifi_connection_menu_blocked
    \/ wifi_connection_menu
    \/ scan_and_connect_wifi
    \/ wifi_try_again
    \/ wifi_connected
    \/ advanced_settings_menu
    \/ advanced_settings_menu_fs
    \/ advanced_settings_menu_save
    \/ no_disks_detected
    \/ installation_flow_disk
    \/ select_system_image
    \/ select_system_image_confirm
    \/ installation_flow_execute
    \/ update_flow_disk_selection
    \/ update_flow_disk
    \/ update_flow_slot
    \/ update_flow_execute

Spec == Init /\ [][Next]_vars

---------------------------------------------------------------------------
(* Properties *)

\* a step of selection_menu: get_key has a key for the open menu
MenuKeyStep == ui = "menu" /\ gk = "fin" /\ exc = "none"

RECURSIVE Times(_, _, _, _)
\* the cursor after k presses of Down (down = TRUE) or Up in a menu of n options
Times(down, k, index, n) ==
    IF k = 0 THEN index
    ELSE Times(down, k - 1, IF down THEN MoveDown(index, n) ELSE MoveUp(index, n), n)

\* C1: in selection_menu with N >= 1 options the cursor stays in [0, N) after any keys;
\* Up moves it to the option before, from the first option to the last; Down moves it to
\* the option after, from the last to the first; and N Downs, or N Ups, from the
\* cursor bring it back to where it is.
C1_CursorWraps ==
    [][ui = "menu" =>
         LET n == Len(Options) IN
         /\ n >= 1
         /\ selected_index \in 0..(n - 1)
         /\ Times(TRUE, n, selected_index, n) = selected_index
         /\ Times(FALSE, n, selected_index, n) = selected_index
         /\ (MenuKeyStep /\ ch = <<ESC, LBRACKET, BYTE_A>>) =>
               selected_index' = (IF selected_index = 0 THEN n - 1 ELSE selected_index - 1)
         /\ (MenuKeyStep /\ ch = <<ESC, LBRACKET, BYTE_B>>) =>
               selected_index' = (IF selected_index = n - 1 THEN 0 ELSE selected_index + 1)
      ]_vars

\* C1 witness: in the settings editor, a menu of seven options, the cursor is on the last
\* option and the key read is Down, which wraps to the first
C1_Witness ==
    /\ pc = "adv" /\ MenuKeyStep
    /\ selected_index = Len(Options) - 1
    /\ ch = KEY_DOWN

\* C2: selection_menu returns only on Enter, 'q', 'Q' or Ctrl-C: on Enter it returns the
\* option under the cursor, on the others None, at once and at the same call site; every
\* other key that is no arrow leaves cursor and menu as they are; and no option is None,
\* so the result is never both cancelled and an option.
C2_MenuEnds ==
    [][MenuKeyStep =>
         /\ (ui' = "ret") <=> (ch \in {<<CR>>, <<ETX>>, <<BYTE_q>>, <<BYTE_Q>>})
         /\ ui' \in {"menu", "ret"}
         /\ pc' = pc
         /\ ch = <<CR>> => choice' = Options[selected_index + 1] /\ choice' # None
         /\ ch \in {<<ETX>>, <<BYTE_q>>, <<BYTE_Q>>} => choice' = None
         /\ ch \notin {KEY_UP, KEY_DOWN} => selected_index' = selected_index
         /\ \A i \in DOMAIN Options : Options[i] # None
      ]_vars

\* C2 witness: the disk menu has returned None (cancelled) with the cursor on an option
C2_Witness ==
    /\ pc = "disk" /\ ui = "ret" /\ choice = None
    /\ selected_index = 1

\* C3 (as claimed): in a menu the bytes 1B 5B 41 act as Up, 1B 5B 42 as Down, 0D as Enter,
\* 03 as Interrupt, and an escape byte with nothing after it as Quit.
C3_KeyDecoding ==
    [][MenuKeyStep =>
         LET n == Len(Options) IN
         /\ ch = <<ESC, LBRACKET, BYTE_A>> =>
               ui' = "menu" /\ selected_index' = (selected_index - 1 + n) % n
         /\ ch = <<ESC, LBRACKET, BYTE_B>> =>
               ui' = "menu" /\ selected_index' = (selected_index + 1) % n
         /\ ch = <<CR>> => ui' = "ret" /\ choice' = Options[selected_index + 1]
         /\ ch = <<ETX>> => ui' = "ret" /\ choice' = None
         /\ ch = <<ESC>> => ui' = "ret" /\ choice' = None
      ]_vars

\* C4 (as claimed): a key that starts with the escape byte and is neither Up nor Down,
\* the escape byte alone included, closes the menu as cancelled: the menu is not left
\* open and the key is not dropped.
C4_EscapeQuits ==
    [][(MenuKeyStep /\ ch # <<>> /\ ch[1] = ESC /\ ch \notin {KEY_UP, KEY_DOWN}) =>
          ui' = "ret" /\ choice' = None
      ]_vars

\* C5: outside get_key the terminal is in the mode it had when the wizard started,
\* whichever way get_key was left; inside, old_settings holds that mode.
C5_TerminalRestored ==
    /\ gk = "out" => term = "cooked"
    /\ gk # "out" => old_settings = "cooked"
    /\ term = "raw" => gk \in {"raw", "esc", "fin"}

\* C5 witness: get_key was left by an exception and the script has ended
C5_Witness ==
    /\ pc = "exit" /\ shown = "CRITICAL ERROR"
    /\ gk = "out" /\ term = "cooked"

\* a step of confirm: get_key has a key for the open confirmation
ConfirmKeyStep == ui = "confirm" /\ gk = "fin" /\ exc = "none"

\* C6: confirm returns True exactly when the key is Enter and the cursor is on
\* "Yes, Continue"; Enter on "No, Go Back", 'q', 'Q' and Ctrl-C at either cursor position
\* return False.
C6_ConfirmAssent ==
    [][ConfirmKeyStep =>
         /\ selected_index \in {0, 1}
         /\ ui' = "ret" =>
               (answer' <=> (ch = <<CR>> /\ confirm_options[selected_index + 1]
                                              = <<"Yes", ",", SP, "Continue">>))
         /\ ch \in {<<ETX>>, <<BYTE_q>>, <<BYTE_Q>>} => ui' = "ret" /\ ~answer'
         /\ (ch = <<CR>> /\ confirm_options[selected_index + 1]
                              = <<"No", ",", SP, "Go", SP, "Back">>) => ui' = "ret" /\ ~answer'
      ]_vars

\* C6 witness: a confirm was ended with the cursor on "No, Go Back" after navigation
C6_Witness ==
    /\ pc = "adv_confirm" /\ ui = "ret"
    /\ selected_index = 1 /\ ~answer

\* whether the field <<word>> is among the fields of a command line
HasField(fields, word) == \E i \in DOMAIN fields : fields[i] = <<word>>

\* C7: the Install command line consists, in this order, of the tool, "install",
\* --dual-boot iff dual boot was enabled, --esp-size, --rootfs-size, --etc-size and
\* --var-size each followed by its value, --use-f2fs iff the file system is f2fs, the
\* disk path and the image path; the example of the specification comes out as written.
C7_InstallCommandOrder ==
    /\ pc = "run_install" =>
         /\ Len(executed) = 1
         /\ LET c == Split(executed[1])
                d == IF flow.dual_boot THEN 1 ELSE 0
                f == IF flow.file_system_type = <<"f2fs">> THEN 1 ELSE 0
            IN  /\ Len(c) = 12 + d + f
                /\ c[1] = <<"obsidianctl">>
                /\ c[2] = <<"install">>
                /\ HasField(c, "--dual-boot") <=> flow.dual_boot
                /\ flow.dual_boot => c[3] = <<"--dual-boot">>
                /\ c[3 + d] = <<"--esp-size">> /\ c[4 + d] = flow.partition_sizes.esp_size
                /\ c[5 + d] = <<"--rootfs-size">> /\ c[6 + d] = flow.partition_sizes.rootfs_size
                /\ c[7 + d] = <<"--etc-size">> /\ c[8 + d] = flow.partition_sizes.etc_size
                /\ c[9 + d] = <<"--var-size">> /\ c[10 + d] = flow.partition_sizes.var_size
                /\ HasField(c, "--use-f2fs") <=> flow.file_system_type = <<"f2fs">>
                /\ f = 1 => c[11 + d] = <<"--use-f2fs">>
                /\ c[Len(c) - 1] = flow.disk
                /\ c[Len(c)] = flow.image_path
    /\ install_command(<<"Install">>, TRUE,
                       [esp_size |-> <<"512M">>, rootfs_size |-> <<"5G">>,
                        etc_size |-> <<"1G">>, var_size |-> <<"5G">>],
                       <<"f2fs">>, <<"/dev/", "sda">>, <<"/etc/system.sfs">>)
         = <<"obsidianctl", SP, "install", SP, "--dual-boot", SP, "--esp-size", SP, "512M",
             SP, "--rootfs-size", SP, "5G", SP, "--etc-size", SP, "1G", SP, "--var-size",
             SP, "5G", SP, "--use-f2fs", SP, "/dev/", "sda", SP, "/etc/system.sfs">>

\* C7 witness: an Install command was executed with dual boot, f2fs and an edited size
C7_Witness ==
    /\ pc = "run_install"
    /\ flow.dual_boot
    /\ flow.file_system_type = <<"f2fs">>
    /\ flow.partition_sizes.rootfs_size = <<"20G">>

FlowNames == {<<"Install">>, <<"Repair">>, <<"Update">>}

\* C8: a command a flow executes has the disk path and the image path the flow asked
\* for (the Install flow always asks for a disk, the Update/Repair flow when "Select a
\* Disk" was chosen); after an empty disk discovery the outcome is shown once, and then,
\* as after a cancelled disk menu or image menu, the flow returns to the main menu with
\* nothing executed.
C8_NoPartialRequest ==
    [][/\ pc' = "run_install" =>
            /\ flow'.disk # None /\ flow'.image_path # None
            /\ Split(executed'[1])[Len(Split(executed'[1])) - 1] = flow'.disk
            /\ Split(executed'[1])[Len(Split(executed'[1]))] = flow'.image_path
       /\ pc' = "run_update" =>
            /\ flow'.image_path # None
            /\ HasField(Split(executed'[1]), "--device") <=> flow'.disks # <<>>
            /\ flow'.disks # <<>> =>
                  /\ flow'.selected_disk # None
                  /\ Split(executed'[1])[Len(Split(executed'[1]))] = flow'.selected_disk
       /\ pc \in {"no_disks", "upd_no_disks"} =>
            /\ shown = "NO DISKS DETECTED" /\ executed = <<>>
            /\ pc' \in {pc, "main", "exit"}
            /\ ui = "ret" => pc' = "main" /\ executed' = <<>>
       /\ (pc \in {"disk", "upd_disk", "image"} /\ ui = "ret" /\ choice = None) =>
            executed = <<>> /\ pc' = "main" /\ executed' = <<>>
       /\ (pc' \in {"no_disks", "upd_no_disks"} /\ pc' # pc) =>
            pc \in {"adv_confirm", "disk_selection"}
      ]_vars

\* C8 witness: no disk was found, the outcome was shown and a key was pressed
C8_Witness ==
    /\ pc = "no_disks" /\ ui = "ret"
    /\ shown = "NO DISKS DETECTED"
    /\ executed = <<>>

\* a step of show_status_screen: get_key has a key for the final confirmation
StatusKeyStep == ui = "status" /\ gk = "fin" /\ exc = "none"

\* C9: in the Install, Repair and Update flows a command is executed only in the step
\* that follows a final confirmation that returned True, which it does only on Enter
\* with the cursor on "Yes, Execute Now"; and at most one command is executed per
\* invocation of a flow.
C9_ExecuteOnlyConfirmed ==
    [][/\ (flow.action \in FlowNames /\ executed' # executed /\ executed' # <<>>) =>
            pc = "status" /\ ui = "ret" /\ answer /\ executed = <<>>
       /\ flow.action \in FlowNames => Len(executed) <= 1
       /\ (StatusKeyStep /\ ui' = "ret") =>
            (answer' <=> (ch = <<CR>> /\ status_options[selected_index + 1]
                                           = <<"Yes", ",", SP, "Execute", SP, "Now">>))
       /\ (StatusKeyStep /\ ch \in {<<ETX>>, <<BYTE_q>>, <<BYTE_Q>>}) => ui' = "ret" /\ ~answer'
       /\ (pc = "status" /\ ui = "ret" /\ ~answer) => pc' = "main" /\ executed' = <<>>
      ]_vars

\* C9 witness: the Repair flow has executed its command
C9_Witness ==
    /\ pc = "run_update"
    /\ flow.action = <<"Repair">>
    /\ Len(executed) = 1

\* the stage of a flow a call site belongs to, in the order of the flow's code
Stage(site) ==
    CASE site \in {"dual_boot", "disk_selection"} -> 1
      [] site \in {"wifi_check", "wifi_no_tools", "wifi_no_interfaces", "wifi_setup",
                   "wifi_networks", "scan_none", "wifi_failed", "wifi_connected"} -> 2
      [] site \in {"adv", "adv_fs", "adv_confirm"} -> 3
      [] site \in {"no_disks", "disk", "upd_no_disks", "upd_disk"} -> 4
      [] site = "slot" -> 5
      [] site \in {"image", "image_confirm"} -> 6
      [] site = "status" -> 7
      [] site \in {"run_install", "run_update"} -> 8
      [] OTHER -> 0

\* the menus the flow functions, the WiFi sub-wizard, the settings editor and
\* select_system_image open with selection_menu
FlowMenus ==
    {"dual_boot", "wifi_setup", "wifi_networks", "adv", "adv_fs", "disk",
     "disk_selection", "upd_disk", "slot", "image"}

\* the menus whose cancellation makes the function that opened them return a failure
\* that the flow function passes on by returning
AbortingMenus == FlowMenus \ {"wifi_networks", "adv_fs"}

\* C10 (as claimed): a cancelled menu at any step of a flow, the WiFi sub-wizard, the
\* settings editor's sub-menus and image selection included, is followed by the main menu.
C10_CancelAlwaysAborts ==
    [][(flow.action \in FlowNames /\ pc \in FlowMenus /\ ui = "ret" /\ choice = None) =>
          pc' = "main"
      ]_vars

\* C10 (amended): a cancelled menu that a flow function, wifi_connection_menu,
\* advanced_settings_menu or select_system_image opened directly, and a final
\* confirmation that returned False, are followed by the main menu with the flow's locals
\* gone and nothing executed; a cancelled network list returns to the WiFi Setup menu and
\* a cancelled file system menu to the settings editor with the settings kept, as a
\* declined save confirmation does, and a declined image confirmation returns to the
\* image menu; and a flow never goes from a stage to an earlier one.
C10_CancelAborts ==
    [][flow.action \in FlowNames =>
         /\ (pc \in AbortingMenus /\ ui = "ret" /\ choice = None) =>
               pc' = "main" /\ flow' = NoFlow /\ executed = <<>> /\ executed' = <<>>
         /\ (pc = "status" /\ ui = "ret" /\ ~answer) =>
               pc' = "main" /\ flow' = NoFlow /\ executed' = <<>>
         /\ (pc = "wifi_networks" /\ ui = "ret" /\ choice = None) =>
               pc' = "wifi_setup" /\ flow' = flow
         /\ (pc = "adv_fs" /\ ui = "ret" /\ choice = None) => pc' = "adv" /\ flow' = flow
         /\ (pc = "adv_confirm" /\ ui = "ret" /\ ~answer) => pc' = "adv" /\ flow' = flow
         /\ (pc = "image_confirm" /\ ui = "ret" /\ ~answer) => pc' = "image" /\ flow' = flow
         /\ pc' \notin {"main", "exit"} => Stage(pc') >= Stage(pc) /\ flow'.action = flow.action
      ]_vars

\* C10 witness: in the settings editor, after a size was edited, the file system menu
\* was cancelled
C10_Witness ==
    /\ pc = "adv_fs" /\ ui = "ret" /\ choice = None
    /\ flow.partition_sizes.esp_size = <<"20G">>

\* the call sites of the Install flow, step by step
InstallSteps ==
    << {"dual_boot"},
       {"wifi_check", "wifi_no_tools", "wifi_no_interfaces", "wifi_setup", "wifi_networks",
        "scan_none", "wifi_failed", "wifi_connected"},
       {"adv", "adv_fs", "adv_confirm"},
       {"no_disks", "disk"},
       {"image", "image_confirm"},
       {"status"},
       {"run_install"} >>

\* the step of the Install flow a call site belongs to, 0 for a site outside the flow
InstallStep(site) ==
    IF \E k \in DOMAIN InstallSteps : site \in InstallSteps[k]
    THEN CHOOSE k \in DOMAIN InstallSteps : site \in InstallSteps[k]
    ELSE 0

\* C11: in the Install flow the steps come in the order dual-boot choice, network
\* resolver, partition settings, disk discovery and selection, image source selection,
\* final confirmation, command assembly and execution: the flow starts at the first, a
\* step is only left for the next one, for the main menu or for the end of the script,
\* never for an earlier one or one further on, and the next step
\* starts only when the step before it succeeded; the command is assembled and executed
\* in the step that leaves the final confirmation.
C11_InstallOrder ==
    [][(flow'.action = <<"Install">> /\ pc' # "exit") =>
         LET k == InstallStep(pc)
             n == InstallStep(pc')
         IN  /\ n # 0
             /\ flow.action # <<"Install">> => pc = "main" /\ n = 1
             /\ flow.action = <<"Install">> =>
                  /\ n \in {k, k + 1}
                  /\ n # k => ui \in {"ret", "call"}
                  /\ (k = 1 /\ n # k) => choice # None /\ flow'.dual_boot = (choice = dual_boot_options[1])
                  /\ (k = 2 /\ n # k) => pc \in {"wifi_check", "wifi_connected"}
                  /\ (k = 3 /\ n # k) => pc = "adv_confirm" /\ answer
                  /\ (k = 4 /\ n # k) => pc = "disk" /\ choice # None /\ flow'.disk # None
                  /\ (k = 5 /\ n # k) => flow'.image_path # None
                  /\ (k = 6 /\ n # k) => answer /\ Len(executed') = 1
                  /\ n # 7 => executed' = <<>>
      ]_vars

\* C11 witness: an Install flow has reached its last step and executed its command
C11_Witness ==
    /\ pc = "run_install" /\ ui = "ret"
    /\ flow.action = <<"Install">>
    /\ Len(executed) = 1

\* the call sites at which wifi_connection_menu and the functions it calls wait for a key
WifiSites ==
    {"wifi_no_tools", "wifi_no_interfaces", "wifi_setup", "wifi_networks", "scan_none",
     "wifi_failed", "wifi_connected"}

\* C12: when is_laptop() answered desktop, or has_wired_connection() answered wired,
\* wifi_connection_menu returns True in its next step: the flow is at the settings
\* editor, nothing was shown, no key was read, no WiFi tool or interface was looked up
\* and no backend called, whatever tools and interfaces there are and however often the
\* function is called; the WiFi screens only ever appear on a laptop without a wired
\* connection.
C12_WifiSkipped ==
    [][/\ (pc = "wifi_check" /\ (~wifi.laptop \/ wifi.wired)) =>
            /\ pc' = "adv" /\ ui' = "menu"
            /\ flow'.action = flow.action /\ flow'.dual_boot = flow.dual_boot
            /\ wifi' = NoWifi
            /\ shown' = shown /\ executed' = executed
            /\ UNCHANGED keyvars
       /\ pc = "wifi_check" => ui = "call" /\ gk = "out" /\ wifi.wifi_tools = <<>>
       /\ pc \in WifiSites => wifi.laptop /\ ~wifi.wired
       /\ (wifi.wifi_tools # <<>> \/ wifi.tried # <<>>) => wifi.laptop /\ ~wifi.wired
      ]_vars

\* C12 witness: wifi_connection_menu was called on a laptop with a wired connection
C12_Witness ==
    /\ pc = "wifi_check"
    /\ wifi.laptop /\ wifi.wired

\* C13: on a laptop without a wired connection the WiFi Setup menu opens only when a
\* backend executable and a wireless interface were found; when no backend was found, or
\* no interface, that is shown, and after the key press wifi_connection_menu returns
\* False and the Install flow is left for the main menu with nothing executed: settings
\* editor, disk menu, image menu and execution are not reached.
C13_WifiBlocked ==
    [][/\ (pc = "wifi_check" /\ wifi.laptop /\ ~wifi.wired) =>
            /\ pc' \in {"wifi_no_tools", "wifi_no_interfaces", "wifi_setup"}
            /\ pc' = "wifi_no_tools" <=> wifi'.wifi_tools = <<>>
            /\ pc' = "wifi_no_interfaces" <=>
                  (wifi'.wifi_tools # <<>> /\ wifi'.interface = None)
            /\ pc' = "wifi_setup" <=> (wifi'.wifi_tools # <<>> /\ wifi'.interface # None)
       /\ pc = "wifi_no_tools" => shown = "No WiFi tools detected on this system"
       /\ pc = "wifi_no_interfaces" => shown = "No wireless interfaces detected"
       /\ pc \in {"wifi_no_tools", "wifi_no_interfaces"} =>
            /\ ui \in {"anykey", "ret"} /\ flow.action = <<"Install">> /\ executed = <<>>
            /\ pc' \in {pc, "main", "exit"}
            /\ ui = "ret" => pc' = "main" /\ flow' = NoFlow /\ executed' = <<>>
      ]_vars

\* C13 witness: backends were found but no wireless interface, and the key was pressed
C13_Witness ==
    /\ pc = "wifi_no_interfaces" /\ ui = "ret"
    /\ wifi.wifi_tools # <<>> /\ wifi.interface = None

\* the fixed order of the backends
BackendOrder == <<"iwctl", "nmcli", "wpa_supplicant">>

\* the place of a backend in the fixed order
BackendRank(tool) == CHOOSE i \in DOMAIN BackendOrder : BackendOrder[i] = tool

\* C14: the discovered backends are in the order iwctl, nmcli, wpa_supplicant; a
\* connection attempt calls them in that order from the first on, each at most once, and
\* calls no further backend after one that reported success; a backend that raised is
\* followed by the next one just as one that reported failure; the attempt succeeded
\* (the success screen is shown) iff the last backend called reported success, and it
\* failed iff every discovered backend was called and none reported success.
C14_BackendFallback ==
    /\ \A i, j \in DOMAIN wifi.wifi_tools :
          i < j => BackendRank(wifi.wifi_tools[i]) < BackendRank(wifi.wifi_tools[j])
    /\ Len(wifi.tried) <= Len(wifi.wifi_tools)
    /\ Len(wifi.results) = Len(wifi.tried)
    /\ \A i \in DOMAIN wifi.tried :
          /\ wifi.tried[i] = wifi.wifi_tools[i]
          /\ i < Len(wifi.tried) => wifi.results[i] \in {"fail", "raise"}
          /\ wifi.results[i] # "ok" => (i < Len(wifi.tried) \/ i = Len(wifi.wifi_tools))
    /\ wifi.tried # <<>> => pc \in {"wifi_connected", "wifi_failed", "exit"}
    /\ pc \in {"wifi_connected", "wifi_failed"} => wifi.tried # <<>>
    /\ pc = "wifi_connected" => wifi.results[Len(wifi.results)] = "ok"
    /\ pc = "wifi_failed" =>
          /\ wifi.tried = wifi.wifi_tools
          /\ \A i \in DOMAIN wifi.results : wifi.results[i] # "ok"

\* C14 witness: three backends were found; the first raised, the second reported failure
\* and the third success
C14_Witness ==
    /\ pc = "wifi_connected"
    /\ wifi.tried = BackendOrder
    /\ wifi.results = <<"raise", "fail", "ok">>

\* C15: after a connection attempt in which every backend failed, for a network chosen
\* from the scan list as for one entered by hand, "Connection failed" is shown and a key
\* awaited; after the key the WiFi Setup menu is open again with the cursor on its first
\* option, in the same Install flow with what it collected: wifi_connection_menu has not
\* returned, neither False (the main menu) nor True (the settings editor).
C15_FailureReturnsToWifiMenu ==
    [][pc = "wifi_failed" =>
         /\ shown = "Connection failed"
         /\ \A i \in DOMAIN wifi.results : wifi.results[i] # "ok"
         /\ ui \in {"anykey", "ret"}
         /\ pc' \in {"wifi_failed", "wifi_setup", "exit"}
         /\ ui = "ret" =>
              /\ pc' = "wifi_setup" /\ ui' = "menu" /\ selected_index' = 0
              /\ flow' = flow
              /\ wifi'.wifi_tools = wifi.wifi_tools /\ wifi'.interface = wifi.interface
              /\ wifi'.tried = <<>>
              /\ executed' = <<>>
      ]_vars

\* C15 witness: the attempt for a network entered by hand failed with all three backends
\* and the key was pressed
C15_Witness ==
    /\ pc = "wifi_failed" /\ ui = "ret"
    /\ wifi.networks = <<>> /\ wifi.ssid = <<"office">>
    /\ Len(wifi.tried) = 3

\* the network list has returned the row of an encrypted network of the scan result
EncryptedRowChosen ==
    /\ pc = "wifi_networks" /\ ui = "ret"
    /\ selected_index + 1 \in DOMAIN wifi.networks
    /\ choice = network_options(wifi.networks)[selected_index + 1]
    /\ wifi.networks[selected_index + 1].encrypted

\* C16: when the row of a network that the scan flagged encrypted is chosen, the step
\* that follows either returns to the network list without a backend having been called
\* or makes a connection attempt with a passphrase that is neither absent nor empty.
C16_EncryptedNeedsPassphrase ==
    [][EncryptedRowChosen =>
         \/ pc' = "wifi_networks" /\ wifi'.tried = <<>>
         \/ /\ pc' \in {"wifi_connected", "wifi_failed"}
            /\ wifi'.password # None
      ]_vars

RepairNames == {<<"Repair">>, <<"Update">>}

\* the call sites of update_flow, step by step
UpdateSteps ==
    << {"disk_selection"}, {"upd_no_disks", "upd_disk"}, {"slot"},
       {"image", "image_confirm"}, {"status"}, {"run_update"} >>

\* the step of update_flow a call site belongs to, 0 for a site outside the flow
UpdateStep(site) ==
    IF \E k \in DOMAIN UpdateSteps : site \in UpdateSteps[k]
    THEN CHOOSE k \in DOMAIN UpdateSteps : site \in UpdateSteps[k]
    ELSE 0

\* C17 (as claimed): the Update and Repair flows never present a disk-selection,
\* partition-settings or network step.
C17_UpdateSkipsDisk ==
    (flow.action \in RepairNames /\ pc # "exit") =>
        pc \notin {"disk_selection", "upd_disk", "upd_no_disks", "disk", "no_disks",
                   "adv", "adv_fs", "adv_confirm", "wifi_check"} \cup WifiSites

\* C17 (amended): the Update and Repair flows begin with the choice between "Current
\* Disk" and "Select a Disk"; after "Select a Disk" the disks are discovered and the
\* disk menu shown (or the lack of disks reported), after "Current Disk" the flow goes
\* straight to the slot menu; then come the slot menu, image-source selection, the final
\* confirmation and the execution, in this order; the dual-boot menu, the network step
\* and the partition settings are never presented.
C17_UpdateSteps ==
    [][(flow'.action \in RepairNames /\ pc' # "exit") =>
         LET k == UpdateStep(pc)
             n == UpdateStep(pc')
         IN  /\ n # 0
             /\ flow.action \notin RepairNames => pc = "main" /\ n = 1
             /\ flow.action \in RepairNames =>
                  /\ n \in {k, k + 1} \/ (k = 1 /\ n = 3)
                  /\ (k = 1 /\ n = 2) => choice = disk_selection_options[2]
                  /\ (k = 1 /\ n = 3) =>
                        choice = disk_selection_options[1] /\ flow'.selected_disk = None
                  /\ (k = 2 /\ n = 3) => pc = "upd_disk" /\ flow'.selected_disk # None
                  /\ (k = 3 /\ n = 4) => flow'.slot \in {<<"a">>, <<"b">>}
                  /\ (k = 4 /\ n = 5) => flow'.image_path # None
                  /\ (k = 5 /\ n = 6) => answer /\ Len(executed') = 1
      ]_vars

\* C17 witness: the Repair flow shows the disk menu
C17_Witness ==
    /\ pc = "upd_disk" /\ ui = "menu"
    /\ flow.action = <<"Repair">>
    /\ flow.disks # <<>>

\* C18: an exception other than an interrupt that leaves get_key while main() runs is
\* caught by the handler at the end of the script: the error banner is shown, the script
\* ends, and its exit status is not zero.
C18_ErrorExitsNonZero ==
    [][(gk = "fin" /\ exc = "error" /\ pc \notin {"run_resize", "run_error_reboot"}) =>
          /\ pc' = "exit" /\ ui' = "done"
          /\ shown' = "CRITICAL ERROR"
          /\ exit_status' > 0
      ]_vars

\* the call sites at which run_command waits for its key
RunSites == {"run_install", "run_update", "run_reboot", "run_resize", "run_error_reboot"}

\* C19: a call of run_command executes its command once; the success banner is shown
\* iff the exit status is 0 and the failure banner otherwise; while run_command waits for
\* the key and when it returns nothing is executed again and nothing undone; no command
\* is executed otherwise; and after the key press a flow called from main() returns and
\* the main menu is open.
C19_RunCommandOnce ==
    [][/\ (pc' \in RunSites /\ pc' # pc) =>
            /\ Len(executed') = Len(executed) + 1
            /\ SubSeq(executed', 1, Len(executed)) = executed
            /\ ui' = "anykey"
            /\ shown' = "Command completed successfully!" <=> flow'.result = 0
            /\ shown' = "Command failed with errors!" <=> flow'.result # 0
       /\ (pc \in RunSites /\ pc' = pc) =>
            executed' = executed /\ shown' = shown /\ flow' = flow
       /\ (executed' # executed /\ executed' # <<>>) => (pc' \in RunSites /\ pc' # pc)
       /\ pc \in {"run_install", "run_update", "run_reboot"} =>
            /\ pc' \in {pc, "main", "exit"}
            /\ ui = "ret" => pc' = "main" /\ ui' = "menu" /\ executed' = <<>>
      ]_vars

\* C19 witness: the Install command failed, the failure banner is shown and the key was
\* pressed
C19_Witness ==
    /\ pc = "run_install" /\ ui = "ret"
    /\ flow.result # 0
    /\ shown = "Command failed with errors!"
    /\ Len(executed) = 1

\* C20: Quit ('q', 'Q') and Interrupt (Ctrl-C) close the main menu with the cancelled
\* value; after a cancelled main menu, as after the choice "Drop to Terminal", the script
\* ends in the next step with exit status 0 and without a command having been executed
\* since the main menu opened; and once the script has ended nothing happens any more.
C20_QuitExitsCleanly ==
    [][/\ (pc = "main" /\ MenuKeyStep /\ ch \in {<<ETX>>, <<BYTE_q>>, <<BYTE_Q>>}) =>
            ui' = "ret" /\ choice' = None
       /\ (pc = "main" /\ ui = "ret"
           /\ (choice = None \/ choice = <<"Drop", SP, "to", SP, "Terminal">>)) =>
            /\ pc' = "exit" /\ ui' = "done"
            /\ exit_status' = 0
            /\ executed = <<>> /\ executed' = <<>>
       /\ pc = "exit" => UNCHANGED vars
       /\ pc # "exit" => exit_status = -1
      ]_vars

\* C20 witness: "Drop to Terminal" was chosen and the script has ended with status 0
C20_Witness ==
    /\ pc = "exit"
    /\ choice = <<"Drop", SP, "to", SP, "Terminal">>
    /\ exit_status = 0
    /\ executed = <<>>

\* C21: every menu selection_menu shows has at least one option: the disk menus are
\* shown for a non-empty disk list only, the slot menu holds the slots found or, when the
\* status query failed or named no slot, the slots a and b, the network list ends with
\* "Back to WiFi Menu" and the image list begins with "Create New Config".
C21_MenusNonEmpty ==
    /\ ui = "menu" => Len(Options) >= 1
    /\ pc \in {"disk", "upd_disk"} => flow.disks # <<>> /\ Options = flow.disks
    /\ pc = "slot" =>
          /\ flow.slots # <<>>
          /\ Len(Options) = Len(flow.slots)
          /\ \A i \in DOMAIN flow.slots : flow.slots[i] \in {<<"a">>, <<"b">>}
    /\ \A res \in StatusResults :
          (~res.ok \/ \A i \in DOMAIN res.lines : SlotMatch(res.lines[i]) = None) =>
             get_current_slots(res) = << <<"a">>, <<"b">> >>
    /\ pc = "wifi_networks" => Options[Len(Options)] = <<"Back", SP, "to", SP, "WiFi", SP, "Menu">>
    /\ pc \in {"image", "image_confirm"} =>
          img.options # <<>> /\ img.options[1] = <<"Create", SP, "New", SP, "Config">>

\* C21 witness: the slot menu is open with the slots a and b of the fallback (the status
\* output of the model that names slots names b first)
C21_Witness ==
    /\ pc = "slot" /\ ui = "menu"
    /\ flow.slots = << <<"a">>, <<"b">> >>

SizeKeys == {"esp_size", "rootfs_size", "etc_size", "var_size"}

\* the settings editor has returned one of its four size options from its menu
SizeChosen ==
    /\ pc = "adv" /\ ui = "ret" /\ choice # None
    /\ \E i \in 1..4 : choice = size_options(flow.partition_sizes, flow.file_system_type)[i]

\* C22: in the settings editor each of the four partition sizes is a non-empty string
\* without blanks around it; an entry for a size leaves the other three sizes and the
\* file system type as they are and gives the edited size either the entry, stripped, or,
\* when the entry is empty or blank, the value it has (which need not be the default).
C22_SizesNonEmpty ==
    [][/\ \A k \in SizeKeys :
            flow.partition_sizes[k] # <<>> /\ Strip(flow.partition_sizes[k]) = flow.partition_sizes[k]
       /\ SizeChosen =>
            /\ \A line \in SizeInputs :
                  (~line.intr /\ Strip(line.text) = <<>>) =>
                      set_size(flow.partition_sizes, size_key(choice), line.text)
                         = flow.partition_sizes
            /\ pc' = "adv" =>
                  /\ \A k \in SizeKeys \ {size_key(choice)} :
                        flow'.partition_sizes[k] = flow.partition_sizes[k]
                  /\ flow'.file_system_type = flow.file_system_type
                  /\ \/ flow'.partition_sizes = flow.partition_sizes
                     \/ \E line \in SizeInputs :
                           /\ ~line.intr /\ Strip(line.text) # <<>>
                           /\ flow'.partition_sizes[size_key(choice)] = Strip(line.text)
      ]_vars

\* C22 witness: the ESP size was edited before and its option is chosen again
C22_Witness ==
    /\ SizeChosen
    /\ size_key(choice) = "esp_size"
    /\ flow.partition_sizes.esp_size = <<"20G">>

\* the default set as the specification gives it
SpecDefaults ==
    [esp_size |-> <<"512M">>, rootfs_size |-> <<"10G">>, etc_size |-> <<"1G">>,
     var_size |-> <<"5G">>]

\* C23: whatever was edited before, the step taken on "Reset to Defaults" leaves the
\* settings editor open with the four sizes 512M, 10G, 1G, 5G and the file system type
\* ext4, all at once; the same values are there whenever the editor is entered, also
\* after edits in an earlier run of it.
C23_ResetRestoresDefaults ==
    [][/\ (pc = "adv" /\ ui = "ret" /\ choice = <<"Reset", SP, "to", SP, "Defaults">>) =>
            /\ pc' = "adv" /\ ui' = "menu"
            /\ flow'.partition_sizes = SpecDefaults
            /\ flow'.file_system_type = <<"ext4">>
       /\ (pc' = "adv" /\ pc \notin {"adv", "adv_fs", "adv_confirm"}) =>
            /\ flow'.partition_sizes = SpecDefaults
            /\ flow'.file_system_type = <<"ext4">>
       /\ DEFAULT_PARTITION_SIZES = SpecDefaults
      ]_vars

\* C23 witness: after a size and the file system type were edited, "Reset to Defaults"
\* is chosen
C23_Witness ==
    /\ pc = "adv" /\ ui = "ret" /\ choice = <<"Reset", SP, "to", SP, "Defaults">>
    /\ flow.partition_sizes.var_size = <<"20G">>
    /\ flow.file_system_type = <<"f2fs">>

\* the settings a list of details names: the last word of each of its first five rows
\* (the file system type is listed in upper case)
ListedSettings(details) ==
    [partition_sizes |->
        [esp_size |-> <<details[1][Len(details[1])]>>,
         rootfs_size |-> <<details[2][Len(details[2])]>>,
         etc_size |-> <<details[3][Len(details[3])]>>,
         var_size |-> <<details[4][Len(details[4])]>>],
     file_system_type |-> <<details[5][Len(details[5])]>>]

\* C24: the settings editor is left for the next step of the flow (disk discovery) only
\* by the step that follows a confirmation that returned True; the confirmation is opened
\* only on "Save and Continue" and lists the four sizes and the file system type that are
\* collected; the settings the flow goes on with are the listed ones; a confirmation that
\* returned False leaves the editor open and nothing is returned.
C24_SaveNeedsConfirmation ==
    [][/\ (pc' = "adv_confirm" /\ pc # "adv_confirm") =>
            pc = "adv" /\ ui = "ret" /\ choice = <<"Save", SP, "and", SP, "Continue">>
       /\ pc = "adv_confirm" =>
            /\ ListedSettings(save_details(flow.partition_sizes, flow.file_system_type))
                  = [partition_sizes |-> flow.partition_sizes,
                     file_system_type |-> Upper(flow.file_system_type)]
            /\ pc' \in {"adv_confirm", "adv", "disk", "no_disks", "exit"}
            /\ pc' # "exit" =>
                  /\ flow'.partition_sizes = flow.partition_sizes
                  /\ flow'.file_system_type = flow.file_system_type
            /\ pc' \in {"disk", "no_disks"} => ui = "ret" /\ answer
            /\ (ui = "ret" /\ ~answer) => pc' = "adv" /\ ui' = "menu"
       /\ (pc' \in {"disk", "no_disks"} /\ pc \notin {"disk", "no_disks"}) =>
            pc = "adv_confirm" /\ answer
      ]_vars

\* C24 witness: edited settings were confirmed
C24_Witness ==
    /\ pc = "adv_confirm" /\ ui = "ret" /\ answer
    /\ flow.partition_sizes.etc_size = <<"20G">>
    /\ flow.file_system_type = <<"f2fs">>

\* a row of the enumeration with a name and a size column
HasNameAndSize(parts) == Len(parts) >= 2

\* C25: the disk list a flow got from get_disks has one descriptor for every row of the
\* tool's output with at least a name and a size column, in the order of the output, and
\* each descriptor names the device and the size of its row; blank rows and rows with a
\* name only give none; when the tool failed or gave no such row the list is empty and
\* the flow reports that no disk was detected.
C25_GetDisks ==
    /\ flow.lsblk = <<>> => flow.disks = <<>>
    /\ flow.lsblk # <<>> =>
          LET res == flow.lsblk[1]
              rows == IF res.ok THEN SelectSeq(res.lines, HasNameAndSize) ELSE <<>>
          IN  /\ Len(flow.disks) = Len(rows)
              /\ \A k \in DOMAIN rows :
                    /\ SubSeq(flow.disks[k], 1, 6)
                          = <<"/dev/", rows[k][1], SP, "(", rows[k][2], ")">>
                    /\ Len(rows[k]) = 2 => flow.disks[k][Len(flow.disks[k])] = "Unknown"
                    /\ Len(rows[k]) > 2 =>
                          flow.disks[k][Len(flow.disks[k])] = rows[k][Len(rows[k])]
              /\ pc # "exit" =>
                    (rows = <<>> <=> pc \in {"no_disks", "upd_no_disks"})
    /\ pc \in {"disk", "upd_disk", "no_disks", "upd_no_disks"} => flow.lsblk # <<>>

\* C25 witness: of three rows two have a name and a size, and the disk menu shows two
\* disks
C25_Witness ==
    /\ pc = "disk" /\ ui = "menu"
    /\ Len(flow.lsblk[1].lines) = 3
    /\ Len(flow.disks) = 2

\* the image files of a listing, as a set
ImageFiles(listing) ==
    IF listing.exists
    THEN {listing.files[i] : i \in {j \in DOMAIN listing.files :
                                      \E e \in {".mkobsfs", ".sfs"} : EndsWith(listing.files[j], e)}}
    ELSE {}

\* C26: in the image menu, whatever the two directories hold, "Create New Config" is the
\* first option and appears once; "Default System Image" is an option iff /etc/system.sfs
\* exists, and is then the second; the file rows of /usr/preconf are exactly its image
\* files, the file rows of the current directory are exactly its image files, every file
\* row comes after these fixed options, and every row of /usr/preconf comes before every
\* row of the current directory.
C26_ImageOptionOrder ==
    pc \in {"image", "image_confirm"} =>
       LET o == img.options
           fixed == IF IS_ARCHISO_REAL THEN 2 ELSE 1
           local == {i \in DOMAIN o : StartsWith(o[i], TREE \o CURRENT_DIR_TAG)}
           system == {i \in DOMAIN o : StartsWith(o[i], TREE)} \ local
       IN  /\ o # <<>> /\ o[1] = CREATE_NEW_CONFIG
           /\ \A i \in DOMAIN o : o[i] = CREATE_NEW_CONFIG => i = 1
           /\ (\E i \in DOMAIN o : o[i] = DEFAULT_SYSTEM_IMAGE) <=> IS_ARCHISO_REAL
           /\ \A i \in DOMAIN o : o[i] = DEFAULT_SYSTEM_IMAGE => i = 2
           /\ {o[i] : i \in system} = {TREE \o f : f \in ImageFiles(img.preconf)}
           /\ {o[i] : i \in local}
                 = {TREE \o CURRENT_DIR_TAG \o f : f \in ImageFiles(img.current_dir)}
           /\ \A i \in system \cup local : i > fixed
           /\ \A i \in system, j \in local : i < j

\* C26 witness: the image menu with the default image, two files of /usr/preconf and one
\* of the current directory
C26_Witness ==
    /\ pc = "image" /\ ui = "menu" /\ IS_ARCHISO_REAL
    /\ ImageFiles(img.preconf) # {} /\ ImageFiles(img.current_dir) # {}
    /\ Len(img.options) = 8

\* the number a string of digits writes
RECURSIVE Number(_)
Number(digits) ==
    IF digits = <<>> THEN 0
    ELSE 10 * Number(SubSeq(digits, 1, Len(digits) - 1)) + (CharRank(digits[Len(digits)]) - 48)

\* the signal quality of a network as a number, 0 when the scan gave none
Quality(network) == Number(quality_key(network))

\* C27: the network list shows at most 10 networks, each of them at least as good as
\* every scanned network it leaves out, in the order of numerically non-increasing
\* quality.
C27_NetworksByQuality ==
    pc = "wifi_networks" =>
       LET n == Len(Options) - 1 IN
       /\ n <= MaxShown /\ n <= Len(wifi.networks)
       /\ Options = network_options(wifi.networks)
       /\ \A i \in 1..n, j \in DOMAIN wifi.networks :
             j > n => Quality(wifi.networks[i]) >= Quality(wifi.networks[j])
       /\ \A i \in 1..n, j \in 1..n :
             i < j => Quality(wifi.networks[i]) >= Quality(wifi.networks[j])

\* the probes of is_laptop, in the order of the claim
LaptopProbes == <<"battery", "dmi", "lid">>

\* C28: when wifi_connection_menu has classified the machine, is_laptop has made its
\* probes in the order battery, chassis type, lid switch, none after the first positive
\* one, and it answered laptop iff the battery node exists, or the chassis type names a
\* laptop, or the lid-switch node exists; a chassis probe that exits non-zero, times out
\* or finds no dmidecode is not positive.
C28_IsLaptop ==
    pc = "wifi_check" =>
       LET p == wifi.probes
           made == SelectSeq(wifi.probed, LAMBDA x : x \in {"battery", "dmi", "lid"})
       IN  /\ made = SubSeq(LaptopProbes, 1, Len(made))
           /\ p.battery => made = <<"battery">>
           /\ (~p.battery /\ p.dmi = "laptop") => made = <<"battery", "dmi">>
           /\ wifi.laptop <=> (p.battery \/ p.dmi = "laptop" \/ p.lid)

\* C29: when wifi_connection_menu has classified a laptop, has_wired_connection answered
\* true only if ip route show default gave a route with a gateway, the ping of the gateway
\* succeeded and ip route get resolved an interface that is not wireless; with any probe
\* exiting non-zero, timing out or missing its tool it answered false.
C29_WiredNeedsAllThree ==
    (pc = "wifi_check" /\ wifi.laptop) =>
       LET p == wifi.probes
       IN  /\ wifi.wired => (p.route = "via" /\ p.ping = "ok" /\ p.get = "wired")
           /\ (p.route \in {"nonzero", "timeout", "missing"}
                 \/ p.ping \in {"nonzero", "timeout", "missing"}
                 \/ p.get \in {"nonzero", "timeout"}) => ~wifi.wired

\* C30: the command a flow has executed names, after the tool, the action of the flow
\* chosen in the main menu, in lower case: install for installation_flow("Install"),
\* repair for update_flow("Repair"), update for update_flow("Update").
C30_CommandNamesAction ==
    pc \in {"run_install", "run_update"} =>
       /\ executed # <<>>
       /\ flow.action \in {<<"Install">>, <<"Repair">>, <<"Update">>}
       /\ StartsWith(executed[Len(executed)], OBSIDIANCTL_PATH \o <<SP>>)
       /\ Split(executed[Len(executed)])[Len(Split(OBSIDIANCTL_PATH)) + 1]
             = LowerStr(flow.action)

\* the network list has returned the row of a network of the scan result
NetworkRowChosen ==
    /\ pc = "wifi_networks" /\ ui = "ret"
    /\ selected_index + 1 \in DOMAIN wifi.networks
    /\ selected_index + 1 <= MaxShown
    /\ choice = network_options(wifi.networks)[selected_index + 1]

\* C31: when the row of a network of the scan result is chosen, a connection attempt that
\* follows is made for the ESSID of that network; if that network is flagged encrypted the
\* passphrase is asked for, so that the list returns or the attempt has a passphrase, and
\* if it is not flagged encrypted the attempt is made at once without a passphrase.
C31_RowSelectsItsNetwork ==
    [][NetworkRowChosen =>
         LET network == wifi.networks[selected_index + 1] IN
         /\ pc' \in {"wifi_connected", "wifi_failed"} => wifi'.ssid = network.essid
         /\ network.encrypted =>
               \/ pc' = "wifi_networks" /\ wifi'.tried = <<>>
               \/ pc' \in {"wifi_connected", "wifi_failed"} /\ wifi'.password # None
         /\ ~network.encrypted =>
               pc' \in {"wifi_connected", "wifi_failed"} /\ wifi'.password = None
      ]_vars

\* C32: after a connection attempt in which connect_wifi_wpa was called, whichever way
\* the call went, the configuration file it wrote, which holds the passphrase, is removed.
C32_ConfigFileRemoved ==
    pc \in {"wifi_connected", "wifi_failed"} =>
       /\ wifi.config_file # "left"
       /\ (\E i \in DOMAIN wifi.tried : wifi.tried[i] = "wpa_supplicant")
             => wifi.config_file = "removed"

\* the options of the main menu that start the four flows
FlowOptions ==
    [Install |-> <<"Install", SP, "ObsidianOS">>, Repair |-> <<"Repair", SP, "ObsidianOS">>,
     Update |-> <<"Update", SP, "System">>, SwitchTemporary |-> SWITCH_TEMPORARY,
     SwitchPermanent |-> SWITCH_PERMANENT]

\* an option is among those the open widget offers
Offered(option) == \E i \in DOMAIN Options : Options[i] = option

\* C33: each of the flows Install, Repair, Update and Switch-Slot can be started from the
\* main menu: the main menu offers the option of each.  main() builds the same option
\* list in every turn of its loop, so an option that some main menu offers is one that
\* every main menu offers.
C33_FlowsCanStart ==
    pc = "main" => \A name \in DOMAIN FlowOptions : Offered(FlowOptions[name])

\* What the script does instead: the main menu never offers the options of Update and
\* Switch-Slot, and it never returns one of them.
MainMenuNeverStartsUpdateOrSwitch ==
    pc = "main" =>
       \A name \in {"Update", "SwitchTemporary", "SwitchPermanent"} :
          ~Offered(FlowOptions[name]) /\ choice # FlowOptions[name]

\* the operation of obsidianctl a Switch-Slot option stands for
SwitchOperation(option) == IF option = SWITCH_TEMPORARY THEN "switch-once" ELSE "switch"

\* the steps of a Switch-Slot flow: when the main menu returned one of the two options,
\* the next step executes the slot-switch command, as the only command so far; when the
\* key after that command is pressed, the reboot confirmation opens, whatever the exit
\* status was; the reboot command is executed only from a confirmation that returned
\* true; and a confirmation that returned false leads to the main menu with nothing
\* further executed.
SwitchSteps ==
    /\ (pc = "main" /\ ui = "ret" /\ choice \in {SWITCH_TEMPORARY, SWITCH_PERMANENT}) =>
          /\ pc' = "run_switch" /\ ui' = "anykey"
          /\ Len(executed') = 1
          /\ Split(executed'[1])[2] = <<SwitchOperation(choice)>>
    /\ (pc = "run_switch" /\ pc' # "exit") =>
          /\ executed' = executed
          /\ pc' \in {"run_switch", "reboot_confirm"}
          /\ ui = "ret" => pc' = "reboot_confirm" /\ ui' = "confirm"
    /\ (pc' = "run_reboot" /\ pc # "run_reboot") =>
          /\ pc = "reboot_confirm" /\ ui = "ret" /\ answer
          /\ executed' = Append(executed, REBOOT_COMMAND)
    /\ (pc = "reboot_confirm" /\ ui = "ret" /\ ~answer) =>
          pc' = "main" /\ ui' = "menu" /\ executed' = <<>>

=============================================================================
